---------------------------- MODULE Spec2Model ----------------------------
(***************************************************************************)
(* SCMS dashboards: the alert classification, the filter predicate and the *)
(* district aggregation of the Dash pages, as state machines over the      *)
(* module-level source table df.                                           *)
(*                                                                         *)
(* Numbers.  The ratio columns (S/C, S/T) are held in hundredths (45.01 is *)
(* 4501) and the infrastructure index in hundredths (0.7 is 70).  A null   *)
(* cell (float NaN) is the value NaN; as in Python every comparison with   *)
(* NaN is False.  Flags are 0 or 1.                                        *)
(***************************************************************************)
EXTENDS Integers, Sequences, FiniteSets, TLC

VARIABLES
    df,     \* the module-level source table (a sequence of rows)
    sel,    \* the current values of the filter dropdowns (of the arguments)
    call,   \* the helper or callback that ran for the current values, or the
            \* user's action that the queued callbacks answer
    ret,    \* what it returned, or the exception it raised
    props,  \* the component properties callbacks write (options, store, buttons)
    pending,\* the callbacks the renderer has requested and not yet run
    threads \* the evaluations in progress on the server, with their local data

vars == <<df, sel, call, ret, props, pending, threads>>

---------------------------------------------------------------------------
(* Values *)

NaN == 0 - 1000000

None == "None"

\* an empty cell of a text column (NaN in an object column)
Null == "NaN"

\* x > c, x < c, x <= c, x >= c on floats: False when x is NaN
GT(x, c) == x # NaN /\ x > c
LT(x, c) == x # NaN /\ x < c
LE(x, c) == x # NaN /\ x <= c
GE(x, c) == x # NaN /\ x >= c

\* Python truthiness of an optional string argument: None and '' are falsy
Truthy(s) == s # None /\ s # ""

\* an optional list argument: None, or a list
NoneList == [none |-> TRUE, items |-> <<>>]
SomeList(l) == [none |-> FALSE, items |-> l]
TruthyList(l) == ~l.none /\ Len(l.items) > 0

Range(s) == {s[i] : i \in DOMAIN s}

\* read_excel gives the table a RangeIndex 0..n-1
WithIndex(t) == [i \in DOMAIN t |-> [index |-> i - 1] @@ t[i]]

---------------------------------------------------------------------------
(* filter_data *)

\* mutant: the sector criterion is not applied
filter_data_NoSector(location, province, district, sector, schools) ==
    LET f0 == df
        f1 == IF Truthy(location) /\ location # "All Locations"
              THEN SelectSeq(f0, LAMBDA r : r.location_type = location)
              ELSE f0
        f2 == IF Truthy(province) /\ province # "All Provinces"
              THEN SelectSeq(f1, LAMBDA r : r.name_of_the_province = province)
              ELSE f1
        f3 == IF Truthy(district) /\ district # "All Districts"
              THEN SelectSeq(f2, LAMBDA r : r.name_of_the_district = district)
              ELSE f2
        f5 == IF TruthyList(schools) /\ Len(schools.items) > 0
              THEN SelectSeq(f3, LAMBDA r : r.school_name \in Range(schools.items))
              ELSE f3
    IN  f5

\* 1_overview.py, 2_maintenance_operation.py: five criteria
filter_data(location, province, district, sector, schools) ==
    LET f0 == df
        f1 == IF Truthy(location) /\ location # "All Locations"
              THEN SelectSeq(f0, LAMBDA r : r.location_type = location)
              ELSE f0
        f2 == IF Truthy(province) /\ province # "All Provinces"
              THEN SelectSeq(f1, LAMBDA r : r.name_of_the_province = province)
              ELSE f1
        f3 == IF Truthy(district) /\ district # "All Districts"
              THEN SelectSeq(f2, LAMBDA r : r.name_of_the_district = district)
              ELSE f2
        f4 == IF Truthy(sector) /\ sector # "All Sectors"
              THEN SelectSeq(f3, LAMBDA r : r.name_of_the_sector = sector)
              ELSE f3
        f5 == IF TruthyList(schools) /\ Len(schools.items) > 0
              THEN SelectSeq(f4, LAMBDA r : r.school_name \in Range(schools.items))
              ELSE f4
    IN  f5

\* unnamed/part_000 (the 'BUG FIXED' overview): province, district, sector
filter_data_final(province, district, sector) ==
    LET f0 == df
        f1 == IF Truthy(province) /\ province # "All Provinces"
              THEN SelectSeq(f0, LAMBDA r : r.name_of_the_province = province)
              ELSE f0
        f2 == IF Truthy(district) /\ district # "All Districts"
              THEN SelectSeq(f1, LAMBDA r : r.name_of_the_district = district)
              ELSE f1
        f3 == IF Truthy(sector) /\ sector # "All Sectors"
              THEN SelectSeq(f2, LAMBDA r : r.name_of_the_sector = sector)
              ELSE f2
    IN  f3

\* dash_simple.py: location, province, district, sector
filter_data_simple(location, province, district, sector) ==
    LET f0 == df
        f1 == IF Truthy(location) /\ location # "All Locations"
              THEN SelectSeq(f0, LAMBDA r : r.location_type = location)
              ELSE f0
        f2 == IF Truthy(province) /\ province # "All Provinces"
              THEN SelectSeq(f1, LAMBDA r : r.name_of_the_province = province)
              ELSE f1
        f3 == IF Truthy(district) /\ district # "All Districts"
              THEN SelectSeq(f2, LAMBDA r : r.name_of_the_district = district)
              ELSE f2
        f4 == IF Truthy(sector) /\ sector # "All Sectors"
              THEN SelectSeq(f3, LAMBDA r : r.name_of_the_sector = sector)
              ELSE f3
    IN  f4

\* pages copy/4_district.py: location, province
filter_data_district(location, province) ==
    LET f0 == df
        f1 == IF Truthy(location) /\ location # "All Locations"
              THEN SelectSeq(f0, LAMBDA r : r.location_type = location)
              ELSE f0
        f2 == IF Truthy(province) /\ province # "All Provinces"
              THEN SelectSeq(f1, LAMBDA r : r.name_of_the_province = province)
              ELSE f1
    IN  f2

\* the callbacks pass `v if v != 'All X' else None`
OrNone(v, all) == IF v # all THEN v ELSE None

\* ... and `schools if schools and len(schools) > 0 else None`
ListOrNone(l) == IF TruthyList(l) /\ Len(l.items) > 0 THEN l ELSE NoneList

---------------------------------------------------------------------------
(* calculate_alerts *)

\* the issue tags of an attention row, in the order the code appends them
AttentionIssues(row, medInfra, delayed) ==
    (IF GT(row.kpi_a1_student_classroom_ratio, 4500)
        /\ LE(row.kpi_a1_student_classroom_ratio, 5000)
     THEN <<"High S/C">> ELSE <<>>)
    \o (IF GT(row.kpi_a2_student_teacher_ratio, 3500)
           /\ LE(row.kpi_a2_student_teacher_ratio, 4000)
        THEN <<"High S/T">> ELSE <<>>)
    \o (IF GE(row.index_1_infrastructure_health_index, 50)
           /\ LT(row.index_1_infrastructure_health_index, 70)
        THEN <<medInfra>> ELSE <<>>)
    \o (IF row.m5_delayed_maintenance = 1 THEN <<delayed>> ELSE <<>>)
    \o (IF row.s2_immediate_safety_concerns = 1 THEN <<"Safety">> ELSE <<>>)
    \o (IF row.kpi_c1_fence_availability = 0 THEN <<"No Fence">> ELSE <<>>)

\* the 'Why Good' tags of a good row
GoodReasons(row) ==
    (IF LE(row.kpi_a1_student_classroom_ratio, 4500)
     THEN <<"S/C<=45">> ELSE <<>>)
    \o (IF LE(row.kpi_a2_student_teacher_ratio, 3500)
        THEN <<"S/T<=35">> ELSE <<>>)
    \o (IF GE(row.index_1_infrastructure_health_index, 70)
        THEN <<"Infra>=0.7">> ELSE <<>>)

\* school_info: the identifying cells of the row.  index is the row's label
\* in df (the `_` of iterrows), kept here to tell apart two rows of one name;
\* the rounded S/C, S/T and Infra display cells are left out.
SchoolInfo(row) ==
    [School |-> row.school_name, Location |-> row.location_type,
     Province |-> row.name_of_the_province, index |-> row.index]

\* mutant: the urgent tests read >= where the code reads >
UrgentTest_Inclusive(row) ==
    \/ GE(row.kpi_a1_student_classroom_ratio, 5000)
    \/ GE(row.kpi_a2_student_teacher_ratio, 4000)
    \/ LT(row.index_1_infrastructure_health_index, 50)

\* `if` of the single-pass variants (1_overview.py:144, dash_simple.py:127)
UrgentTest(row) ==
    \/ GT(row.kpi_a1_student_classroom_ratio, 5000)
    \/ GT(row.kpi_a2_student_teacher_ratio, 4000)
    \/ LT(row.index_1_infrastructure_health_index, 50)

\* mutant: the fence criterion is left out of the attention test
AttentionTest_NoFence(row) ==
    \/ (GT(row.kpi_a1_student_classroom_ratio, 4500)
        /\ LE(row.kpi_a1_student_classroom_ratio, 5000))
    \/ (GT(row.kpi_a2_student_teacher_ratio, 3500)
        /\ LE(row.kpi_a2_student_teacher_ratio, 4000))
    \/ (GE(row.index_1_infrastructure_health_index, 50)
        /\ LT(row.index_1_infrastructure_health_index, 70))
    \/ row.m5_delayed_maintenance = 1
    \/ row.s2_immediate_safety_concerns = 1

\* mutant: the S/C attention band starts at 45 instead of above 45
AttentionTest_From45(row) ==
    \/ (GE(row.kpi_a1_student_classroom_ratio, 4500)
        /\ LE(row.kpi_a1_student_classroom_ratio, 5000))
    \/ (GT(row.kpi_a2_student_teacher_ratio, 3500)
        /\ LE(row.kpi_a2_student_teacher_ratio, 4000))
    \/ (GE(row.index_1_infrastructure_health_index, 50)
        /\ LT(row.index_1_infrastructure_health_index, 70))
    \/ row.m5_delayed_maintenance = 1
    \/ row.s2_immediate_safety_concerns = 1
    \/ row.kpi_c1_fence_availability = 0

\* `elif` of the single-pass variants (1_overview.py:150, dash_simple.py:131)
AttentionTest(row) ==
    \/ (GT(row.kpi_a1_student_classroom_ratio, 4500)
        /\ LE(row.kpi_a1_student_classroom_ratio, 5000))
    \/ (GT(row.kpi_a2_student_teacher_ratio, 3500)
        /\ LE(row.kpi_a2_student_teacher_ratio, 4000))
    \/ (GE(row.index_1_infrastructure_health_index, 50)
        /\ LT(row.index_1_infrastructure_health_index, 70))
    \/ row.m5_delayed_maintenance = 1
    \/ row.s2_immediate_safety_concerns = 1
    \/ row.kpi_c1_fence_availability = 0

\* mutant: `if` where the code reads `elif`: an urgent row is tested again
ClassifyRow_NoElif(acc, row) ==
    LET a1 == IF UrgentTest(row)
              THEN [acc EXCEPT !.urgent = Append(@, SchoolInfo(row))]
              ELSE acc
    IN  IF AttentionTest(row)
        THEN [a1 EXCEPT !.attention = Append(@,
                 SchoolInfo(row) @@
                 [Issues |-> AttentionIssues(row, "Med Infra", "Delayed")])]
        ELSE IF UrgentTest(row) THEN a1
        ELSE [a1 EXCEPT !.good = Append(@,
                 SchoolInfo(row) @@ [WhyGood |-> GoodReasons(row)])]

\* one turn of the loop of the single-pass variants: the row goes to the
\* first list whose test it passes
ClassifyRow(acc, row) ==
    IF UrgentTest(row)
    THEN [acc EXCEPT !.urgent = Append(@, SchoolInfo(row))]
    ELSE IF AttentionTest(row)
    THEN [acc EXCEPT !.attention = Append(@,
             SchoolInfo(row) @@
             [Issues |-> AttentionIssues(row, "Med Infra", "Delayed")])]
    ELSE [acc EXCEPT !.good = Append(@,
             SchoolInfo(row) @@ [WhyGood |-> GoodReasons(row)])]

\* {'urgent': [], 'attention': [], 'good': []}
EmptyAlerts ==
    [urgent |-> <<>>, attention |-> <<>>, good |-> <<>>, good_type |-> "list"]

RECURSIVE AlertsLoop(_, _)
AlertsLoop(data, acc) ==
    IF data = <<>> THEN acc
    ELSE AlertsLoop(Tail(data), ClassifyRow(acc, Head(data)))

\* 1_overview.py and dash_simple.py: the three lists
calculate_alerts(data) ==
    IF Len(data) = 0
    THEN EmptyAlerts
    ELSE AlertsLoop(data, EmptyAlerts)

\* unnamed/part_000, first loop: the urgent issues of a row
UrgentIssues(row) ==
    (IF GT(row.kpi_a1_student_classroom_ratio, 5000) THEN <<"S/C">> ELSE <<>>)
    \o (IF GT(row.kpi_a2_student_teacher_ratio, 4000) THEN <<"S/T">> ELSE <<>>)
    \o (IF LT(row.index_1_infrastructure_health_index, 50)
        THEN <<"Infra">> ELSE <<>>)

\* one turn of the first loop: urgent list and urgent_schools (a set of names)
UrgentStep(acc, row) ==
    LET issues == UrgentIssues(row)
    IN  IF issues # <<>>
        THEN [urgent |-> Append(acc.urgent,
                 [school |-> row.school_name, issues |-> issues,
                  index |-> row.index]),
              urgent_schools |-> acc.urgent_schools \cup {row.school_name}]
        ELSE acc

RECURSIVE UrgentPass(_, _)
UrgentPass(data, acc) ==
    IF data = <<>> THEN acc
    ELSE UrgentPass(Tail(data), UrgentStep(acc, Head(data)))

\* mutant: the second loop does not skip the schools already urgent
AttentionStep_NoSkip(acc, row, urgent_schools) ==
    LET issues == AttentionIssues(row, "Medium Infra", "Delayed Maint.")
    IN  IF issues # <<>>
        THEN [attention |-> Append(acc.attention,
                 [school |-> row.school_name, issues |-> issues,
                  index |-> row.index]),
              attention_schools |-> acc.attention_schools \cup {row.school_name}]
        ELSE acc

\* one turn of the second loop: a row whose name is in urgent_schools is
\* skipped
AttentionStep(acc, row, urgent_schools) ==
    LET issues == AttentionIssues(row, "Medium Infra", "Delayed Maint.")
    IN  IF row.school_name \in urgent_schools THEN acc
        ELSE IF issues # <<>>
        THEN [attention |-> Append(acc.attention,
                 [school |-> row.school_name, issues |-> issues,
                  index |-> row.index]),
              attention_schools |-> acc.attention_schools \cup {row.school_name}]
        ELSE acc

RECURSIVE AttentionPass(_, _, _)
AttentionPass(data, urgent_schools, acc) ==
    IF data = <<>> THEN acc
    ELSE AttentionPass(Tail(data), urgent_schools,
                       AttentionStep(acc, Head(data), urgent_schools))

\* urgent[:5]
Truncate(list, n) == SubSeq(list, 1, IF Len(list) < n THEN Len(list) ELSE n)

\* good_count = len(data) - len(urgent_schools) - len(attention_schools)
GoodCount(data, urgent_schools, attention_schools) ==
    Len(data) - Cardinality(urgent_schools) - Cardinality(attention_schools)

\* unnamed/part_000: two truncated lists and the good count.  urgent_all and
\* attention_all are the lists before the [:5] cut (locals of the function,
\* kept to state what the cut leaves out); good_type is the Python type of
\* the value under 'good' (an int here, a list in the other variants).
calculate_alerts_final(data) ==
    IF Len(data) = 0
    THEN [urgent |-> <<>>, attention |-> <<>>, good |-> 0,
          good_type |-> "int", urgent_all |-> <<>>, attention_all |-> <<>>]
    ELSE LET u == UrgentPass(data, [urgent |-> <<>>, urgent_schools |-> {}])
             a == AttentionPass(data, u.urgent_schools,
                      [attention |-> <<>>, attention_schools |-> {}])
         IN  [urgent |-> Truncate(u.urgent, 5),
              attention |-> Truncate(a.attention, 5),
              good |-> GoodCount(data, u.urgent_schools, a.attention_schools),
              good_type |-> "int",
              urgent_all |-> u.urgent, attention_all |-> a.attention]


\* dash_simple.py: school_info also carries the district and the flag
SchoolInfoSimple(row) ==
    SchoolInfo(row) @@
    [District |-> row.name_of_the_district,
     DelayedMaintenance |-> row.m5_delayed_maintenance]

ClassifyRowSimple(acc, row) ==
    IF UrgentTest(row)
    THEN [acc EXCEPT !.urgent = Append(@, SchoolInfoSimple(row))]
    ELSE IF AttentionTest(row)
    THEN [acc EXCEPT !.attention = Append(@,
             SchoolInfoSimple(row) @@
             [Issues |-> AttentionIssues(row, "Med Infra", "Delayed")])]
    ELSE [acc EXCEPT !.good = Append(@,
             SchoolInfoSimple(row) @@ [WhyGood |-> GoodReasons(row)])]

RECURSIVE AlertsLoopSimple(_, _)
AlertsLoopSimple(data, acc) ==
    IF data = <<>> THEN acc
    ELSE AlertsLoopSimple(Tail(data), ClassifyRowSimple(acc, Head(data)))

calculate_alerts_simple(data) ==
    IF Len(data) = 0
    THEN EmptyAlerts
    ELSE AlertsLoopSimple(data, EmptyAlerts)

---------------------------------------------------------------------------
(* DataFrame helpers *)

\* the order of Python strings, for the names the tables use
Alphabet ==
    <<"A", "B", "D1", "D2", "D3", "D9", "Kigali City", "P1", "P2", "P9",
      "Rural Districts", "S1", "S2", "Secondary Cities", "Unknown">>

Pos(str) == CHOOSE i \in DOMAIN Alphabet : Alphabet[i] = str

\* tuples of strings compare lexicographically
RECURSIVE TupleLess(_, _)
TupleLess(a, b) ==
    IF a = <<>> \/ b = <<>> THEN a = <<>> /\ b # <<>>
    ELSE IF Head(a) = Head(b) THEN TupleLess(Tail(a), Tail(b))
    ELSE Pos(Head(a)) < Pos(Head(b))

\* groupby(sort=True): the group keys in ascending order
RECURSIVE SortedKeys(_)
SortedKeys(keys) ==
    IF keys = {} THEN <<>>
    ELSE LET least == CHOOSE k \in keys : \A o \in keys \ {k} : TupleLess(k, o)
         IN  <<least>> \o SortedKeys(keys \ {least})

\* sum and count of the non-null cells of a column
RECURSIVE ColSum(_, _)
ColSum(rows, col) ==
    IF rows = <<>> THEN 0
    ELSE (IF Head(rows)[col] = NaN THEN 0 ELSE Head(rows)[col])
         + ColSum(Tail(rows), col)

ColCount(rows, col) == Len(SelectSeq(rows, LAMBDA r : r[col] # NaN))

\* n / d rounded to the nearest integer, halves to the even one (n >= 0, d > 0)
RoundHalfEven(n, d) ==
    LET q == n \div d
        r == n % d
    IN  IF 2 * r < d THEN q
        ELSE IF 2 * r > d THEN q + 1
        ELSE IF q % 2 = 0 THEN q ELSE q + 1

\* round(mean * num / den): the mean skips the null cells and is null when
\* every cell is; the result is counted in units of `step`
MeanRound(rows, col, num, den, step) ==
    IF ColCount(rows, col) = 0 THEN NaN
    ELSE step * RoundHalfEven(ColSum(rows, col) * num, ColCount(rows, col) * den)

Perms(n) == {p \in [1..n -> 1..n] : \A i, j \in 1..n : p[i] = p[j] => i = j}

\* sort_values(col) with the default kind='quicksort', which is not stable:
\* every order of the rows in which the non-null cells descend (ascend), rows
\* with equal cells in any order, and the rows with a null cell last in their
\* original order
SortOutcomes(rows, col, ascending) ==
    LET nn == SelectSeq(rows, LAMBDA r : r[col] # NaN)
        nans == SelectSeq(rows, LAMBDA r : r[col] = NaN)
        InOrder(a, b) == IF ascending THEN a <= b ELSE a >= b
    IN  {[i \in 1..Len(nn) |-> nn[p[i]]] \o nans :
            p \in {q \in Perms(Len(nn)) :
                     \A i, j \in 1..Len(nn) :
                         i < j => InOrder(nn[q[i]][col], nn[q[j]][col])}}

\* the same with a stable sort: rows with equal cells keep their order
StableSort(rows, col, ascending) ==
    LET nn == SelectSeq(rows, LAMBDA r : r[col] # NaN)
        nans == SelectSeq(rows, LAMBDA r : r[col] = NaN)
        Strictly(a, b) == IF ascending THEN a < b ELSE a > b
        p == CHOOSE q \in Perms(Len(nn)) :
                 \A i, j \in 1..Len(nn) :
                     i < j => \/ Strictly(nn[q[i]][col], nn[q[j]][col])
                              \/ (nn[q[i]][col] = nn[q[j]][col] /\ q[i] < q[j])
    IN  [i \in 1..Len(nn) |-> nn[p[i]]] \o nans

\* df.head(n)
HeadN(rows, n) == SubSeq(rows, 1, IF Len(rows) < n THEN Len(rows) ELSE n)

\* a DataFrame: its columns and its rows; pd.DataFrame() has neither
Frame(columns, rows) == [columns |-> columns, rows |-> rows]
EmptyFrame == Frame({}, <<>>)

\* frame[col] = series (one value for each row)
WithColumn(frame, col, series) ==
    Frame(frame.columns \cup {col},
          [i \in DOMAIN frame.rows |-> (col :> series[i]) @@ frame.rows[i]])


\* frame[cols]
Project(frame, cols) ==
    Frame(cols, [i \in DOMAIN frame.rows |->
                    [c \in cols |-> frame.rows[i][c]]])

---------------------------------------------------------------------------
(* aggregate_by_district *)

DistrictColumns ==
    {"Rank", "District", "Province", "Location", "Schools", "Students",
     "Teachers", "Classrooms", "S/C Ratio", "S/T Ratio", "Infra Index",
     "Electricity %", "Water Score", "Classroom Damage %", "Fence %",
     "Delayed Maintenance"}

\* the columns the rows of data are grouped by
GroupKey(r) ==
    <<r.name_of_the_district, r.name_of_the_province, r.location_type>>

\* one row of the aggregate: the group's key, its counts and sums, and its
\* rounded means.  Ratios, scores, rates and the index are in hundredths,
\* the two percentages in tenths of a percent.
GroupRow(key, members) ==
    [c \in DistrictColumns \ {"Rank"} |->
        CASE c = "District" -> key[1]
          [] c = "Province" -> key[2]
          [] c = "Location" -> key[3]
          [] c = "Schools" -> ColCount(members, "school_code")
          [] c = "Students" -> ColSum(members, "number_of_students")
          [] c = "Teachers" -> ColSum(members, "number_of_teachers")
          [] c = "Classrooms" -> ColSum(members, "number_of_classrooms")
          [] c = "S/C Ratio" ->
                 MeanRound(members, "kpi_a1_student_classroom_ratio", 1, 10, 10)
          [] c = "S/T Ratio" ->
                 MeanRound(members, "kpi_a2_student_teacher_ratio", 1, 10, 10)
          [] c = "Infra Index" ->
                 MeanRound(members, "index_1_infrastructure_health_index", 1, 1, 1)
          [] c = "Electricity %" ->
                 MeanRound(members, "kpi_d2_electricity_reliability", 10, 1, 1)
          [] c = "Water Score" ->
                 MeanRound(members, "kpi_d1_water_quality_score", 1, 10, 10)
          [] c = "Classroom Damage %" ->
                 MeanRound(members, "kpi_b1_classroom_damage_rate", 1, 10, 10)
          [] c = "Fence %" ->
                 MeanRound(members, "kpi_c1_fence_availability", 1000, 1, 1)
          [] c = "Delayed Maintenance" ->
                 ColSum(members, "m5_delayed_maintenance")]

\* groupby(...).agg(...).reset_index(): one row per key, keys ascending
GroupRows(data) ==
    LET keys == SortedKeys({GroupKey(r) : r \in Range(data)})
    IN  [i \in DOMAIN keys |->
            GroupRow(keys[i], SelectSeq(data, LAMBDA r : GroupKey(r) = keys[i]))]

\* mutant: the ranks are counted from 0
WithRank_FromZero(rows) == [i \in DOMAIN rows |-> ("Rank" :> i - 1) @@ rows[i]]

\* insert(0, 'Rank', range(1, len + 1))
WithRank(rows) == [i \in DOMAIN rows |-> ("Rank" :> i) @@ rows[i]]

\* aggregate_by_district without its test for no data: one row of zeros
aggregate_by_district_ZeroRow(data) ==
    {Frame(DistrictColumns,
           WithRank(<<[c \in DistrictColumns \ {"Rank"} |-> 0]>>))}

\* the frames aggregate_by_district can return for data (one for each order
\* sort_values may leave the rows of equal Infra Index in)
aggregate_by_district(data) ==
    IF Len(data) = 0 THEN {EmptyFrame}
    ELSE {Frame(DistrictColumns, WithRank(sorted)) :
             sorted \in SortOutcomes(GroupRows(data), "Infra Index", FALSE)}

---------------------------------------------------------------------------
(* The tables the alert machine starts from *)

MaxRows == 3
MaxLong == 6

GoodRow ==
    [school_name |-> "A", location_type |-> "Rural Districts",
     name_of_the_province |-> "P1", name_of_the_district |-> "D1",
     name_of_the_sector |-> "S1",
     kpi_a1_student_classroom_ratio |-> 2000,
     kpi_a2_student_teacher_ratio |-> 2000,
     index_1_infrastructure_health_index |-> 80,
     m5_delayed_maintenance |-> 0, s2_immediate_safety_concerns |-> 0,
     kpi_c1_fence_availability |-> 1,
     school_code |-> 100101, number_of_students |-> 400,
     number_of_teachers |-> 10, number_of_classrooms |-> 10,
     kpi_d2_electricity_reliability |-> 100,
     kpi_d1_water_quality_score |-> 300,
     kpi_b1_classroom_damage_rate |-> 10,
     kpi_b2_toilet_damage_rate |-> 10,
     toilets_boys_total |-> 4, toilets_girls_total |-> 4,
     kpi_b3_school_age |-> 15]

\* one row, every combination of the values on both sides of each threshold
ThresholdRows ==
    {[GoodRow EXCEPT !.kpi_a1_student_classroom_ratio = sc,
                     !.kpi_a2_student_teacher_ratio = st,
                     !.index_1_infrastructure_health_index = infra,
                     !.m5_delayed_maintenance = d,
                     !.s2_immediate_safety_concerns = sf,
                     !.kpi_c1_fence_availability = f] :
        sc \in {NaN, 4500, 4501, 5000, 5001},
        st \in {NaN, 3500, 3501, 4000, 4001},
        infra \in {NaN, 49, 50, 69, 70},
        d \in {0, 1}, sf \in {0, 1}, f \in {0, 1}}

\* several rows; school names repeat (school_name is not unique)
SmallRows ==
    {[GoodRow EXCEPT !.school_name = n,
                     !.kpi_a1_student_classroom_ratio = sc,
                     !.m5_delayed_maintenance = d] :
        n \in {"A", "B"}, sc \in {4000, 4800, 5500}, d \in {0, 1}}

SchoolNames ==
    <<"S1", "S2", "S3", "S4", "S5", "S6", "S7", "S8", "S9", "S10">>

\* more rows than the five an alert list shows, every school name once
LongTables(n) ==
    {[i \in 1..n |->
        [GoodRow EXCEPT !.school_name = SchoolNames[i],
                        !.kpi_a1_student_classroom_ratio = f[i]]] :
        f \in [1..n -> {4000, 4800, 5500}]}

\* spec.md, end-to-end scenario: S/C 20, 46, 52, 48, 30
EndToEnd ==
    [i \in 1..5 |->
        [GoodRow EXCEPT !.school_name = SchoolNames[i],
                        !.kpi_a1_student_classroom_ratio =
                            <<2000, 4600, 5200, 4800, 3000>>[i]]]

\* spec.md, the GOOD-count regression: 10 records, 1 urgent, 1 attention
TenRecords ==
    [i \in 1..10 |->
        [GoodRow EXCEPT !.school_name = SchoolNames[i],
                        !.kpi_a1_student_classroom_ratio =
                            IF i = 1 THEN 5500 ELSE IF i = 2 THEN 4800 ELSE 4000]]

AlertTables ==
    {<<r>> : r \in ThresholdRows}
    \cup UNION {[1..n -> SmallRows] : n \in 0..MaxRows}
    \cup UNION {LongTables(n) : n \in 4..MaxLong}
    \cup {EndToEnd, TenRecords}

---------------------------------------------------------------------------
(* The callbacks that show the alerts *)

Returned(v) == [raised |-> "", value |-> v]
Raised(e) == [raised |-> e]

\* 1_overview.py update_alerts
update_alerts(location, province, district, sector, schools) ==
    LET filtered_df ==
            filter_data(OrNone(location, "All Locations"),
                        OrNone(province, "All Provinces"),
                        OrNone(district, "All Districts"),
                        OrNone(sector, "All Sectors"),
                        ListOrNone(schools))
    IN  /\ call' = [op |-> "update_alerts", page |-> "1_overview",
                    args |-> <<location, province, district, sector, schools>>,
                    data |-> filtered_df]
        /\ ret' = Returned(calculate_alerts(filtered_df))
        /\ UNCHANGED <<df, sel, props, pending, threads>>

\* unnamed/part_000 update_alerts
update_alerts_final(province, district, sector) ==
    LET filtered_df ==
            filter_data_final(OrNone(province, "All Provinces"),
                              OrNone(district, "All Districts"),
                              OrNone(sector, "All Sectors"))
    IN  /\ call' = [op |-> "update_alerts", page |-> "1_overview copy",
                    args |-> <<province, district, sector>>,
                    data |-> filtered_df]
        /\ ret' = Returned(calculate_alerts_final(filtered_df))
        /\ UNCHANGED <<df, sel, props, pending, threads>>

\* dash_simple.py update_alerts
update_alerts_simple(location, province, district, sector) ==
    LET filtered_df ==
            filter_data_simple(OrNone(location, "All Locations"),
                               OrNone(province, "All Provinces"),
                               OrNone(district, "All Districts"),
                               OrNone(sector, "All Sectors"))
    IN  /\ call' = [op |-> "update_alerts", page |-> "dash_simple",
                    args |-> <<location, province, district, sector>>,
                    data |-> filtered_df]
        /\ ret' = Returned(calculate_alerts_simple(filtered_df))
        /\ UNCHANGED <<df, sel, props, pending, threads>>

NoCall == [op |-> "load", page |-> ""]

\* a page whose callbacks are looked at one at a time: no component property
\* is followed, nothing is queued and nothing runs in parallel
Quiet == props = <<>> /\ pending = {} /\ threads = <<>>

\* mutant: the outputs computed for the previous values stay on the page
Select_KeepOutputs(field, values) ==
    \E v \in values \ {sel[field]} :
        /\ sel' = [sel EXCEPT ![field] = v]
        /\ UNCHANGED <<df, call, ret, props, pending, threads>>

\* a dropdown changes value: the outputs that depend on it are recomputed
Select(field, values) ==
    \E v \in values \ {sel[field]} :
        /\ sel' = [sel EXCEPT ![field] = v]
        /\ call' = NoCall
        /\ ret' = Returned(<<>>)
        /\ UNCHANGED <<df, props, pending, threads>>

\* the dropdowns as the layouts create them
InitialSelection ==
    [location |-> "All Locations", province |-> "All Provinces",
     district |-> "All Districts", sector |-> "All Sectors",
     schools |-> NoneList, districts |-> SomeList(<<>>)]

\* the province dropdown's value; "P9" is a province no record has
AlertProvinces == {"All Provinces", "P1", "P9"}

SelectAlertProvince == Select("province", AlertProvinces)

UpdateAlerts ==
    update_alerts(sel.location, sel.province, sel.district, sel.sector,
                  sel.schools)

UpdateAlertsFinal ==
    update_alerts_final(sel.province, sel.district, sel.sector)

UpdateAlertsSimple ==
    update_alerts_simple(sel.location, sel.province, sel.district, sel.sector)

InitAlerts ==
    /\ df \in {WithIndex(t) : t \in AlertTables}
    /\ sel = InitialSelection
    /\ call = NoCall
    /\ ret = Returned(<<>>)
    /\ Quiet

NextAlerts ==
    \/ SelectAlertProvince
    \/ UpdateAlerts
    \/ UpdateAlertsFinal
    \/ UpdateAlertsSimple

SpecAlerts == InitAlerts /\ [][NextAlerts]_vars


---------------------------------------------------------------------------
(* filter_data called on its own *)

MaxFilterRows == 2

\* where a school is: a district lies in one province, a sector in one district
PlaceRows ==
    {[GoodRow EXCEPT !.school_name = n, !.location_type = l,
                     !.name_of_the_province = pl[1],
                     !.name_of_the_district = pl[2],
                     !.name_of_the_sector = pl[3]] :
        n \in {"A", "B"}, l \in {"Kigali City", "Rural Districts"},
        pl \in {<<"P1", "D1", "S1">>, <<"P2", "D2", "S2">>}}

\* one row, the five columns independent of each other
FreeRows ==
    {[GoodRow EXCEPT !.school_name = n, !.location_type = l,
                     !.name_of_the_province = p, !.name_of_the_district = d,
                     !.name_of_the_sector = sc] :
        n \in {"A", "B"}, l \in {"Kigali City", "Rural Districts"},
        p \in {"P1", "P2"}, d \in {"D1", "D2"}, sc \in {"S1", "S2"}}

FilterTables ==
    {<<r>> : r \in FreeRows} \cup UNION {[1..n -> PlaceRows] : n \in 0..MaxFilterRows}

\* the arguments filter_data is called with
LocationArgs == {None, "All Locations", "Kigali City"}
ProvinceArgs == {None, "", "All Provinces", "P1"}
DistrictArgs == {None, "All Districts", "D1"}
SectorArgs == {None, "All Sectors", "S1"}
SchoolsArgs == {NoneList, SomeList(<<>>), SomeList(<<"A">>)}

\* filter_data's defaults: every argument None
NoArguments ==
    [location |-> None, province |-> None, district |-> None,
     sector |-> None, schools |-> NoneList, districts |-> SomeList(<<>>)]

ChooseArgument ==
    \/ Select("location", LocationArgs)
    \/ Select("province", ProvinceArgs)
    \/ Select("district", DistrictArgs)
    \/ Select("sector", SectorArgs)
    \/ Select("schools", SchoolsArgs)

FilterData ==
    /\ call' = [op |-> "filter_data", page |-> "1_overview", args |-> sel]
    /\ ret' = Returned(filter_data(sel.location, sel.province, sel.district,
                                   sel.sector, sel.schools))
    /\ UNCHANGED <<df, sel, props, pending, threads>>

\* 4_district.py: filter_data(location, province)
FilterDataDistrict ==
    /\ call' = [op |-> "filter_data", page |-> "4_district",
                args |-> [sel EXCEPT !.district = None, !.sector = None,
                                     !.schools = NoneList]]
    /\ ret' = Returned(filter_data_district(sel.location, sel.province))
    /\ UNCHANGED <<df, sel, props, pending, threads>>

InitFilter ==
    /\ df \in {WithIndex(t) : t \in FilterTables}
    /\ sel = NoArguments
    /\ call = NoCall
    /\ ret = Returned(<<>>)
    /\ Quiet

NextFilter == ChooseArgument \/ FilterData \/ FilterDataDistrict

SpecFilter == InitFilter /\ [][NextFilter]_vars

---------------------------------------------------------------------------
(* The district page's callbacks, and the overview's top performers *)

\* the mark update_ranking_table puts on a selected district
Tick == "tick"

display_cols ==
    <<"Rank", "Selected", "District", "Location", "Province", "Schools",
      "Students", "S/C Ratio", "S/T Ratio", "Infra Index", "Electricity %",
      "Water Score">>

\* update_ranking_table from its district_agg on: the Selected column, then
\* district_agg[display_cols]; reading a column the frame lacks is a KeyError
ranking_table(district_agg, selected_districts) ==
    IF TruthyList(selected_districts) /\ "District" \notin district_agg.columns
    THEN Raised("KeyError")
    ELSE LET marked ==
                 IF TruthyList(selected_districts)
                 THEN WithColumn(district_agg, "Selected",
                          [i \in DOMAIN district_agg.rows |->
                              IF district_agg.rows[i]["District"]
                                     \in Range(selected_districts.items)
                              THEN Tick ELSE ""])
                 ELSE WithColumn(district_agg, "Selected",
                          [i \in DOMAIN district_agg.rows |-> ""])
         IN  IF ~(Range(display_cols) \subseteq marked.columns)
             THEN Raised("KeyError")
             ELSE Returned([data |-> Project(marked, Range(display_cols)).rows,
                            columns |-> display_cols,
                            bottom_from |-> Len(district_agg.rows) - 4])

update_ranking_table(location, province, selected_districts) ==
    LET filtered_df == filter_data_district(OrNone(location, "All Locations"),
                                            OrNone(province, "All Provinces"))
    IN  \E district_agg \in aggregate_by_district(filtered_df) :
            /\ call' = [op |-> "update_ranking_table", page |-> "4_district",
                        args |-> <<location, province, selected_districts>>,
                        data |-> filtered_df, district_agg |-> district_agg]
            /\ ret' = ranking_table(district_agg, selected_districts)
            /\ UNCHANGED <<df, sel, props, pending, threads>>

\* the target of the gap chart, in hundredths
TARGET == 70

\* mutant: the boundaries belong to the bucket below
get_color_Inclusive(gap) ==
    IF LE(gap, 0 - 30) THEN "#8b0000"
    ELSE IF LE(gap, 0 - 20) THEN "#d62728"
    ELSE IF LE(gap, 0 - 10) THEN "#ff7f0e"
    ELSE IF LE(gap, 0) THEN "#ffc107"
    ELSE IF LE(gap, 10) THEN "#90ee90"
    ELSE "#2ca02c"

get_color(gap) ==
    IF LT(gap, 0 - 30) THEN "#8b0000"
    ELSE IF LT(gap, 0 - 20) THEN "#d62728"
    ELSE IF LT(gap, 0 - 10) THEN "#ff7f0e"
    ELSE IF LT(gap, 0) THEN "#ffc107"
    ELSE IF LT(gap, 10) THEN "#90ee90"
    ELSE "#2ca02c"

\* mutant: the target minus the value
Minus_Reversed(x, c) == IF x = NaN THEN NaN ELSE c - x

Minus(x, c) == IF x = NaN THEN NaN ELSE x - c

\* mutant: the sign of the gap is dropped
GapPercent_Unsigned(gap) ==
    IF gap = NaN THEN NaN
    ELSE IF gap >= 0 THEN RoundHalfEven(gap * 1000, 70)
    ELSE RoundHalfEven((0 - gap) * 1000, 70)

\* (gap / TARGET) * 100 as the hover text shows it (+.1f), in tenths
GapPercent(gap) ==
    IF gap = NaN THEN NaN
    ELSE IF gap >= 0 THEN RoundHalfEven(gap * 1000, TARGET)
    ELSE 0 - RoundHalfEven((0 - gap) * 1000, TARGET)

GapColumns == {"District", "Infra Index", "Schools", "Gap", "Gap_Percent", "Color"}

\* update_gap_chart from its district_agg on; the bars it draws, one outcome
\* for each order sort_values may leave the equal gaps in
gap_chart(district_agg) ==
    IF "Infra Index" \notin district_agg.columns THEN {Raised("KeyError")}
    ELSE LET gap == WithColumn(district_agg, "Gap",
                        [i \in DOMAIN district_agg.rows |->
                            Minus(district_agg.rows[i]["Infra Index"], TARGET)])
             pct == WithColumn(gap, "Gap_Percent",
                        [i \in DOMAIN gap.rows |-> GapPercent(gap.rows[i]["Gap"])])
         IN  {Returned(Project(WithColumn(Frame(pct.columns, sorted), "Color",
                                   [i \in DOMAIN sorted |-> get_color(sorted[i]["Gap"])]),
                               GapColumns).rows) :
                 sorted \in SortOutcomes(pct.rows, "Gap", TRUE)}

update_gap_chart(location, province) ==
    LET filtered_df == filter_data_district(OrNone(location, "All Locations"),
                                            OrNone(province, "All Provinces"))
    IN  \E district_agg \in aggregate_by_district(filtered_df) :
        \E outcome \in gap_chart(district_agg) :
            /\ call' = [op |-> "update_gap_chart", page |-> "4_district",
                        args |-> <<location, province>>,
                        data |-> filtered_df, district_agg |-> district_agg]
            /\ ret' = outcome
            /\ UNCHANGED <<df, sel, props, pending, threads>>

\* update_top10_chart from its district_agg on
top10_chart(district_agg) ==
    IF "Infra Index" \notin district_agg.columns THEN {Raised("KeyError")}
    ELSE {Returned(Project(Frame(district_agg.columns, top10),
                           {"District", "Infra Index", "Rank"}).rows) :
             top10 \in SortOutcomes(HeadN(district_agg.rows, 10),
                                    "Infra Index", TRUE)}

update_top10_chart(location, province) ==
    LET filtered_df == filter_data_district(OrNone(location, "All Locations"),
                                            OrNone(province, "All Provinces"))
    IN  \E district_agg \in aggregate_by_district(filtered_df) :
        \E outcome \in top10_chart(district_agg) :
            /\ call' = [op |-> "update_top10_chart", page |-> "4_district",
                        args |-> <<location, province>>,
                        data |-> filtered_df, district_agg |-> district_agg]
            /\ ret' = outcome
            /\ UNCHANGED <<df, sel, props, pending, threads>>

\* DataFrame.nlargest(n, col), keep='first'
nlargest(rows, n, col) == HeadN(StableSort(rows, col, FALSE), n)

\* 1_overview.py update_top_performers: the numbered items it shows
update_top_performers(location, province, district, sector, schools) ==
    LET filtered_df ==
            filter_data(OrNone(location, "All Locations"),
                        OrNone(province, "All Provinces"),
                        OrNone(district, "All Districts"),
                        OrNone(sector, "All Sectors"),
                        ListOrNone(schools))
        top5 == nlargest(filtered_df, 5, "index_1_infrastructure_health_index")
    IN  /\ call' = [op |-> "update_top_performers", page |-> "1_overview",
                    args |-> <<location, province, district, sector, schools>>,
                    data |-> filtered_df]
        /\ ret' = Returned([i \in DOMAIN top5 |->
                      [position |-> i, school_name |-> top5[i].school_name,
                       value |-> top5[i].index_1_infrastructure_health_index]])
        /\ UNCHANGED <<df, sel, props, pending, threads>>

\* a number on the radar: the fraction num / den, or null
Fraction(num, den) == [num |-> num, den |-> den]
NullFraction == Fraction(NaN, 1)

\* x / den (null when x is)
Over(x, den) == IF x = NaN THEN NullFraction ELSE Fraction(x, den)

\* max(0, 1 - x / cap): Python's max keeps its first argument unless the
\* second compares greater, so a null x gives 0
Inverse(x, cap) ==
    IF x = NaN \/ x >= cap THEN Fraction(0, 1) ELSE Fraction(cap - x, cap)

\* min(1, teachers / students * 100) if students > 0 else 0
TeacherScore(teachers, students) ==
    IF students > 0
    THEN (IF teachers * 100 < students THEN Fraction(teachers * 100, students)
          ELSE Fraction(1, 1))
    ELSE Fraction(0, 1)

\* the eight values of one district row, in the order of `categories`
RadarValues(row) ==
    <<Over(row["Infra Index"], 100),
      Over(row["Electricity %"], 1000),
      Over(row["Water Score"], 400),
      Over(row["Fence %"], 1000),
      Inverse(row["S/C Ratio"], 6000),
      Inverse(row["S/T Ratio"], 5000),
      Inverse(row["Classroom Damage %"], 10000),
      TeacherScore(row["Teachers"], row["Students"])>>

\* update_spider_chart from its district_agg on: the traces it draws
spider_chart(district_agg, selected_districts) ==
    IF {"Infra Index", "District"} \cap district_agg.columns = {}
    THEN Raised("KeyError")
    ELSE LET chosen ==
                 IF ~TruthyList(selected_districts)
                 THEN {r["District"] :
                          r \in Range(nlargest(district_agg.rows, 5, "Infra Index"))}
                 ELSE Range(selected_districts.items)
             district_subset ==
                 SelectSeq(district_agg.rows, LAMBDA r : r["District"] \in chosen)
         IN  Returned([top5 |-> ~TruthyList(selected_districts),
                       traces |-> [i \in DOMAIN district_subset |->
                                      [name |-> district_subset[i]["District"],
                                       r |-> RadarValues(district_subset[i])]]])

update_spider_chart(location, province, selected_districts) ==
    LET filtered_df == filter_data_district(OrNone(location, "All Locations"),
                                            OrNone(province, "All Provinces"))
    IN  \E district_agg \in aggregate_by_district(filtered_df) :
            /\ call' = [op |-> "update_spider_chart", page |-> "4_district",
                        args |-> <<location, province, selected_districts>>,
                        data |-> filtered_df, district_agg |-> district_agg]
            /\ ret' = spider_chart(district_agg, selected_districts)
            /\ UNCHANGED <<df, sel, props, pending, threads>>

\* mutant: `filtered = df` where the code reads df.copy(): when no mask is
\* applied the frame returned is df itself
filter_frame_NoCopy(location, province, district, sector, schools) ==
    [shared |-> /\ ~(Truthy(location) /\ location # "All Locations")
                /\ ~(Truthy(province) /\ province # "All Provinces")
                /\ ~(Truthy(district) /\ district # "All Districts")
                /\ ~(Truthy(sector) /\ sector # "All Sectors")
                /\ ~TruthyList(schools),
     rows |-> filter_data(location, province, district, sector, schools)]

\* the frame filter_data returns, as an object: it starts from df.copy(), so
\* it shares no data with df
filter_frame(location, province, district, sector, schools) ==
    [shared |-> FALSE,
     rows |-> filter_data(location, province, district, sector, schools)]

\* the source table after frame[col] = ...: the assignment reaches df only
\* through a frame that is df
SourceAfterWrite(frame, written) == IF frame.shared THEN written ELSE df

labels ==
    <<"0-10 yrs", "11-20 yrs", "21-30 yrs", "31-40 yrs", "41-50 yrs",
      "51-60 yrs", ">60 yrs">>

\* pd.cut(age, bins=[0, 10, 20, 30, 40, 50, 60, 100], right=True): the bins
\* are open on the left, an age outside (0, 100] has no group
age_group(age) ==
    IF age = NaN \/ age <= 0 \/ age > 100 THEN Null
    ELSE IF age > 60 THEN labels[7]
    ELSE labels[((age - 1) \div 10) + 1]

\* one line of age_summary
AgeSummary(label, schools_in_group) ==
    [AgeRange |-> label, Count |-> Len(schools_in_group),
     Schools |-> HeadN(schools_in_group, 5),
     More |-> IF Len(schools_in_group) > 5 THEN Len(schools_in_group) - 5 ELSE 0]

\* filtered_df['age_group'] = pd.cut(filtered_df['kpi_b3_school_age'], ...)
with_age_group(rows) ==
    [i \in DOMAIN rows |->
        ("age_group" :> age_group(rows[i].kpi_b3_school_age)) @@ rows[i]]

\* the loop over the labels: one line for each group that has a school
age_summary(filtered_df) ==
    LET InGroup(label) ==
            LET members == SelectSeq(filtered_df, LAMBDA r : r["age_group"] = label)
            IN  [i \in DOMAIN members |-> members[i].school_name]
        present == SelectSeq(labels, LAMBDA label : InGroup(label) # <<>>)
    IN  [i \in DOMAIN present |-> AgeSummary(present[i], InGroup(present[i]))]

\* 1_overview.py update_age_table: writes age_group to its filtered frame and
\* lists the groups that have a school
update_age_table(location, province, district, sector, schools) ==
    LET frame == filter_frame(OrNone(location, "All Locations"),
                              OrNone(province, "All Provinces"),
                              OrNone(district, "All Districts"),
                              OrNone(sector, "All Sectors"),
                              ListOrNone(schools))
        filtered_df == with_age_group(frame.rows)
    IN  /\ call' = [op |-> "update_age_table", page |-> "1_overview",
                    args |-> <<location, province, district, sector, schools>>,
                    data |-> filtered_df]
        /\ ret' = Returned(age_summary(filtered_df))
        /\ df' = SourceAfterWrite(frame, filtered_df)
        /\ UNCHANGED <<sel, props, pending, threads>>

MaxDistrictRows == 2

\* schools for the district page: district D1 has schools in Kigali City and
\* in rural areas, province P2 has none outside Kigali City
DistrictRows ==
    {[GoodRow EXCEPT !.location_type = pl[1], !.name_of_the_province = pl[2],
                     !.name_of_the_district = pl[3],
                     !.index_1_infrastructure_health_index = x] :
        pl \in {<<"Kigali City", "P1", "D1">>, <<"Rural Districts", "P1", "D1">>,
                <<"Rural Districts", "P1", "D2">>, <<"Kigali City", "P2", "D3">>},
        x \in {40, 80}}

DistrictTables == UNION {[1..n -> DistrictRows] : n \in 1..MaxDistrictRows}

SelectPlace ==
    \/ Select("location", {"All Locations", "Kigali City", "Rural Districts"})
    \/ Select("province", {"All Provinces", "P2"})
    \/ Select("district", {"All Districts", "D3"})

SelectDistricts == Select("districts", {SomeList(<<>>), SomeList(<<"D1">>)})

UpdateRankingTable ==
    update_ranking_table(sel.location, sel.province, sel.districts)

UpdateGapChart == update_gap_chart(sel.location, sel.province)

UpdateTop10Chart == update_top10_chart(sel.location, sel.province)

UpdateTopPerformers ==
    update_top_performers(sel.location, sel.province, sel.district,
                          sel.sector, sel.schools)

UpdateSpiderChart ==
    update_spider_chart(sel.location, sel.province, sel.districts)

UpdateAgeTable ==
    update_age_table(sel.location, sel.province, sel.district, sel.sector,
                     sel.schools)

---------------------------------------------------------------------------
(* The district aggregate on its own: reductions, ranks and gaps *)

MaxReduceRows == 2
MaxRankRows == 3

\* schools of district D1, in Kigali City or outside, by S/C ratio
ReduceRows ==
    {[GoodRow EXCEPT !.location_type = l, !.name_of_the_district = "D1",
                     !.kpi_a1_student_classroom_ratio = sc] :
        l \in {"Kigali City", "Rural Districts"},
        sc \in {4000, 6000, 4005, NaN}}

\* schools of three districts by infrastructure index
RankRows ==
    {[GoodRow EXCEPT !.location_type = pl[1], !.name_of_the_province = pl[2],
                     !.name_of_the_district = pl[3],
                     !.index_1_infrastructure_health_index = x] :
        pl \in {<<"Rural Districts", "P1", "D1">>,
                <<"Rural Districts", "P1", "D2">>,
                <<"Kigali City", "P2", "D3">>},
        x \in {50, 90, NaN}}

\* one school, its infrastructure index on either side of each gap boundary
GapRows ==
    {[GoodRow EXCEPT !.index_1_infrastructure_health_index = x] :
        x \in {39, 40, 49, 50, 59, 60, 69, 70, 79, 80}}

AggregateTables ==
    UNION {[1..n -> ReduceRows] : n \in 1..MaxReduceRows}
    \cup UNION {[1..n -> RankRows] : n \in 1..MaxRankRows}
    \cup {<<r>> : r \in GapRows}

\* module load: district_data = aggregate_by_district(df)
LoadDistrictData ==
    \E district_agg \in aggregate_by_district(df) :
        /\ call' = [op |-> "aggregate_by_district", page |-> "4_district",
                    args |-> <<>>, data |-> df, district_agg |-> district_agg]
        /\ ret' = Returned(district_agg)
        /\ UNCHANGED <<df, sel, props, pending, threads>>

SelectAggregateLocation ==
    Select("location", {"All Locations", "Kigali City"})

InitAggregate ==
    /\ df \in {WithIndex(t) : t \in AggregateTables}
    /\ sel = InitialSelection
    /\ call = NoCall
    /\ ret = Returned(<<>>)
    /\ Quiet

NextAggregate ==
    \/ LoadDistrictData
    \/ SelectAggregateLocation
    \/ UpdateRankingTable
    \/ UpdateGapChart
    \/ UpdateSpiderChart

SpecAggregate == InitAggregate /\ [][NextAggregate]_vars

---------------------------------------------------------------------------
(* calculate_kpis and the overview callbacks that divide *)

\* float infinity (a positive number divided by zero)
Inf == 1000000

Finite(x) == x # NaN /\ x # Inf

\* number_of_teachers / number_of_classrooms of one record: a division by
\* zero gives inf, zero by zero gives NaN; nothing is raised
TeachersPerClassroom(r) ==
    IF r.number_of_classrooms = 0
    THEN (IF r.number_of_teachers = 0 THEN NullFraction ELSE Fraction(Inf, 1))
    ELSE Fraction(r.number_of_teachers, r.number_of_classrooms)

RECURSIVE SumFractions(_)
SumFractions(fs) ==
    IF fs = <<>> THEN Fraction(0, 1)
    ELSE LET rest == SumFractions(Tail(fs))
         IN  Fraction(Head(fs).num * rest.den + rest.num * Head(fs).den,
                      Head(fs).den * rest.den)

\* round(series.mean(), 1) of the per-record ratios, in hundredths: the
\* mean skips NaN, is NaN when nothing is left and inf as soon as one is
MeanOfRatios(data) ==
    LET ratios == [i \in DOMAIN data |-> TeachersPerClassroom(data[i])]
        valued == SelectSeq(ratios, LAMBDA f : f.num # NaN)
        total == SumFractions(valued)
    IN  IF valued = <<>> THEN NaN
        ELSE IF \E i \in DOMAIN valued : valued[i].num = Inf THEN Inf
        ELSE 10 * RoundHalfEven(total.num * 10, total.den * Len(valued))

\* the colour of a damage average
DamageColor(avg) ==
    IF LT(avg, 1500) THEN "#2ca02c"
    ELSE IF LT(avg, 3000) THEN "#ffa500" ELSE "#d62728"

\* ratios, scores and rates in hundredths, percentages in tenths of a percent
calculate_kpis(data) ==
    IF Len(data) = 0
    THEN [total_schools |-> 0, total_students |-> 0, total_classrooms |-> 0,
          total_teachers |-> 0, avg_student_classroom |-> 0,
          avg_student_teacher |-> 0, avg_teacher_classroom |-> 0,
          avg_infrastructure |-> 0, pct_electricity |-> 0,
          avg_water_quality |-> 0, avg_classroom_damage |-> 0,
          avg_toilet_damage |-> 0, pct_fence |-> 0,
          toilets_boys |-> 0, toilets_girls |-> 0,
          sc_color |-> "#999", st_color |-> "#999", infra_color |-> "#999",
          class_dmg_color |-> "#999", toilet_dmg_color |-> "#999"]
    ELSE LET avg_student_classroom ==
                 MeanRound(data, "kpi_a1_student_classroom_ratio", 1, 10, 10)
             avg_student_teacher ==
                 MeanRound(data, "kpi_a2_student_teacher_ratio", 1, 10, 10)
             avg_infrastructure ==
                 MeanRound(data, "index_1_infrastructure_health_index", 1, 1, 1)
             avg_classroom_damage ==
                 MeanRound(data, "kpi_b1_classroom_damage_rate", 1, 10, 10)
             avg_toilet_damage ==
                 MeanRound(data, "kpi_b2_toilet_damage_rate", 1, 10, 10)
         IN  [total_schools |-> Len(data),
              total_students |-> ColSum(data, "number_of_students"),
              total_classrooms |-> ColSum(data, "number_of_classrooms"),
              total_teachers |-> ColSum(data, "number_of_teachers"),
              avg_student_classroom |-> avg_student_classroom,
              avg_student_teacher |-> avg_student_teacher,
              avg_teacher_classroom |-> MeanOfRatios(data),
              avg_infrastructure |-> avg_infrastructure,
              pct_electricity |->
                  RoundHalfEven(ColSum(data, "kpi_d2_electricity_reliability") * 10,
                                Len(data)),
              avg_water_quality |->
                  MeanRound(data, "kpi_d1_water_quality_score", 1, 10, 10),
              avg_classroom_damage |-> avg_classroom_damage,
              avg_toilet_damage |-> avg_toilet_damage,
              pct_fence |->
                  RoundHalfEven(ColSum(data, "kpi_c1_fence_availability") * 1000,
                                Len(data)),
              toilets_boys |-> ColSum(data, "toilets_boys_total"),
              toilets_girls |-> ColSum(data, "toilets_girls_total"),
              sc_color |-> IF GT(avg_student_classroom, 4500)
                           THEN "#d62728" ELSE "#2ca02c",
              st_color |-> IF GT(avg_student_teacher, 3500)
                           THEN "#d62728" ELSE "#2ca02c",
              infra_color |-> IF GE(avg_infrastructure, 70)
                              THEN "#2ca02c" ELSE "#d62728",
              class_dmg_color |-> DamageColor(avg_classroom_damage),
              toilet_dmg_color |-> DamageColor(avg_toilet_damage)]

\* create_kpi_card: the title, the value shown and its colour
create_kpi_card(title, value, color) ==
    [title |-> title, value |-> value, color |-> color]

\* 1_overview.py update_kpi_row2: its six cards
update_kpi_row2(location, province, district, sector, schools) ==
    LET filtered_df ==
            filter_data(OrNone(location, "All Locations"),
                        OrNone(province, "All Provinces"),
                        OrNone(district, "All Districts"),
                        OrNone(sector, "All Sectors"),
                        ListOrNone(schools))
        kpis == calculate_kpis(filtered_df)
    IN  /\ call' = [op |-> "update_kpi_row2", page |-> "1_overview",
                    args |-> <<location, province, district, sector, schools>>,
                    data |-> filtered_df]
        /\ ret' = Returned(
               <<create_kpi_card("Student/Classroom",
                                 kpis.avg_student_classroom, kpis.sc_color),
                 create_kpi_card("Student/Teacher",
                                 kpis.avg_student_teacher, kpis.st_color),
                 create_kpi_card("Teacher/Classroom",
                                 kpis.avg_teacher_classroom, "#17a2b8"),
                 create_kpi_card("Infrastructure",
                                 kpis.avg_infrastructure, kpis.infra_color),
                 create_kpi_card("Electricity", kpis.pct_electricity, "#28a745"),
                 create_kpi_card("Water Quality",
                                 kpis.avg_water_quality, "#007bff")>>)
        /\ UNCHANGED <<df, sel, props, pending, threads>>

Max(a, b) == IF a > b THEN a ELSE b

\* 1_overview.py update_toilets_chart: the two bars and the gender gap, the
\* gap in tenths of a percent
update_toilets_chart(location, province, district, sector, schools) ==
    LET filtered_df ==
            filter_data(OrNone(location, "All Locations"),
                        OrNone(province, "All Provinces"),
                        OrNone(district, "All Districts"),
                        OrNone(sector, "All Sectors"),
                        ListOrNone(schools))
        boys == ColSum(filtered_df, "toilets_boys_total")
        girls == ColSum(filtered_df, "toilets_girls_total")
        gap_pct == IF Max(boys, girls) > 0
                   THEN RoundHalfEven((IF boys > girls THEN boys - girls
                                       ELSE girls - boys) * 1000,
                                      Max(boys, girls))
                   ELSE 0
    IN  /\ call' = [op |-> "update_toilets_chart", page |-> "1_overview",
                    args |-> <<location, province, district, sector, schools>>,
                    data |-> filtered_df]
        /\ ret' = Returned([boys |-> boys, girls |-> girls, gap_pct |-> gap_pct])
        /\ UNCHANGED <<df, sel, props, pending, threads>>

MaxKpiRows == 2

\* schools by teachers, classrooms and toilets, zero included
KpiRows ==
    {[GoodRow EXCEPT !.number_of_teachers = t, !.number_of_classrooms = c,
                     !.toilets_boys_total = b, !.toilets_girls_total = g] :
        t \in {0, 10}, c \in {0, 4}, b \in {0, 4}, g \in {0, 2}}

KpiTables == UNION {[1..n -> KpiRows] : n \in 1..MaxKpiRows}

SelectKpiLocation == Select("location", {"All Locations", "Kigali City"})

UpdateKpiRow2 ==
    update_kpi_row2(sel.location, sel.province, sel.district, sel.sector,
                    sel.schools)

UpdateToiletsChart ==
    update_toilets_chart(sel.location, sel.province, sel.district, sel.sector,
                         sel.schools)

InitKpis ==
    /\ df \in {WithIndex(t) : t \in KpiTables}
    /\ sel = InitialSelection
    /\ call = NoCall
    /\ ret = Returned(<<>>)
    /\ Quiet

NextKpis == SelectKpiLocation \/ UpdateKpiRow2 \/ UpdateToiletsChart

SpecKpis == InitKpis /\ [][NextKpis]_vars

\* the district page and the overview side by side, over the same table
InitDistrict ==
    /\ df \in {WithIndex(t) : t \in DistrictTables}
    /\ sel = InitialSelection
    /\ call = NoCall
    /\ ret = Returned(<<>>)
    /\ Quiet

NextDistrict ==
    \/ SelectPlace
    \/ SelectDistricts
    \/ UpdateRankingTable
    \/ UpdateGapChart
    \/ UpdateTop10Chart
    \/ UpdateTopPerformers
    \/ UpdateAlerts
    \/ UpdateAlertsFinal
    \/ UpdateAgeTable
    \/ UpdateKpiRow2

SpecDistrict == InitDistrict /\ [][NextDistrict]_vars

---------------------------------------------------------------------------
(* Module load: the normalisation of the table read from the spreadsheet *)

kigali_codes ==
    {110504, 110505, 120735, 130804, 130405, 121207, 110306, 121011, 130819,
     110909}

secondary_codes ==
    {331232, 330802, 330713, 240605, 240504, 240202, 271011, 270202, 270517,
     270613, 430207, 430706, 430518, 430801, 520312, 520403, 520801, 361510,
     360614, 361306}

get_location_type(code) ==
    IF code \in kigali_codes THEN "Kigali City"
    ELSE IF code \in secondary_codes THEN "Secondary Cities"
    ELSE "Rural Districts"

\* Series.fillna('Unknown')
fillna(v) == IF v = Null THEN "Unknown" ELSE v

\* df['location_type'] = df['school_code'].apply(get_location_type)
WithLocationType(r) ==
    ("location_type" :> get_location_type(r.school_code)) @@ r

\* 1_overview.py (and 2_maintenance_operation.py, 3_safety_utilities_enironment.py,
\* dash_simple.py, unnamed/part_000): province, district and sector are filled
load_overview(raw) ==
    [i \in DOMAIN raw |->
        WithLocationType([raw[i] EXCEPT
            !.name_of_the_province = fillna(@),
            !.name_of_the_district = fillna(@),
            !.name_of_the_sector = fillna(@)])]

\* pages copy/4_district.py: province and district are filled
load_district(raw) ==
    [i \in DOMAIN raw |->
        WithLocationType([raw[i] EXCEPT
            !.name_of_the_province = fillna(@),
            !.name_of_the_district = fillna(@)])]

SectorColumns ==
    <<"Sector", "Schools", "Students", "Teachers", "Classrooms", "S/C Ratio",
      "S/T Ratio", "Infra Index">>

\* one sector's row of update_sector_drilldown
SectorRow(sector, members) ==
    [c \in Range(SectorColumns) |->
        CASE c = "Sector" -> sector
          [] c = "Schools" -> ColCount(members, "school_code")
          [] c = "Students" -> ColSum(members, "number_of_students")
          [] c = "Teachers" -> ColSum(members, "number_of_teachers")
          [] c = "Classrooms" -> ColSum(members, "number_of_classrooms")
          [] c = "S/C Ratio" ->
                 MeanRound(members, "kpi_a1_student_classroom_ratio", 1, 10, 10)
          [] c = "S/T Ratio" ->
                 MeanRound(members, "kpi_a2_student_teacher_ratio", 1, 10, 10)
          [] c = "Infra Index" ->
                 MeanRound(members, "index_1_infrastructure_health_index", 1, 1, 1)]

\* groupby('name_of_the_sector'): the records with an empty sector belong to
\* no group (dropna=True), the groups come in ascending order of sector
SectorRows(district_schools) ==
    LET keys == SortedKeys({<<r.name_of_the_sector>> :
                               r \in {x \in Range(district_schools) :
                                         x.name_of_the_sector # Null}})
    IN  [i \in DOMAIN keys |->
            SectorRow(keys[i][1],
                      SelectSeq(district_schools,
                                LAMBDA r : r.name_of_the_sector = keys[i][1]))]

\* pages copy/4_district.py update_sector_drilldown: the table it shows
update_sector_drilldown(selected_districts) ==
    IF ~TruthyList(selected_districts) \/ Len(selected_districts.items) # 1
    THEN /\ call' = [op |-> "update_sector_drilldown", page |-> "4_district",
                     args |-> <<selected_districts>>, data |-> <<>>]
         /\ ret' = Returned([message |-> "Select exactly ONE district",
                             table_data |-> <<>>])
         /\ UNCHANGED <<df, sel, props, pending, threads>>
    ELSE LET district_name == selected_districts.items[1]
             district_schools ==
                 SelectSeq(df, LAMBDA r : r.name_of_the_district = district_name)
         IN  /\ call' = [op |-> "update_sector_drilldown", page |-> "4_district",
                         args |-> <<selected_districts>>,
                         data |-> district_schools]
             /\ IF Len(district_schools) = 0
                THEN ret' = Returned([message |-> "No data available",
                                      table_data |-> <<>>])
                ELSE \E sorted \in SortOutcomes(SectorRows(district_schools),
                                                "Infra Index", FALSE) :
                         ret' = Returned([message |-> "", table_data |-> sorted])
             /\ UNCHANGED <<df, sel, props, pending, threads>>

MaxRawRows == 2

\* a row of the sheet: no location_type yet, text cells possibly empty
RawRows ==
    {[f \in DOMAIN GoodRow \ {"location_type"} |->
        CASE f = "name_of_the_province" -> pl[1]
          [] f = "name_of_the_district" -> pl[2]
          [] f = "name_of_the_sector" -> pl[3]
          [] f = "school_code" -> code
          [] OTHER -> GoodRow[f]] :
        pl \in {"P1", Null} \X {"D1", Null} \X {"S1", Null},
        code \in {110504, 331232, 100101}}

RawTables == UNION {[1..n -> RawRows] : n \in 1..MaxRawRows}

\* pd.read_excel has returned and the module has not gone further
ReadExcel == [op |-> "read_excel", page |-> ""]

Loaded(page) == [op |-> "load", page |-> page]

LoadOverview ==
    /\ call = ReadExcel
    /\ \E page \in {"1_overview", "dash_simple"} :
           /\ df' = load_overview(df)
           /\ call' = Loaded(page)
    /\ UNCHANGED <<sel, ret, props, pending, threads>>

LoadDistrictPage ==
    /\ call = ReadExcel
    /\ df' = load_district(df)
    /\ call' = Loaded("4_district")
    /\ UNCHANGED <<sel, ret, props, pending, threads>>

UpdateSectorDrilldown ==
    /\ call.page = "4_district"
    /\ \E selected_districts \in
           {SomeList(<<>>), SomeList(<<"D1">>), SomeList(<<"Unknown">>),
            SomeList(<<"D1", "Unknown">>)} :
           update_sector_drilldown(selected_districts)

InitLoad ==
    /\ df \in {WithIndex(t) : t \in RawTables}
    /\ sel = InitialSelection
    /\ call = ReadExcel
    /\ ret = Returned(<<>>)
    /\ Quiet

NextLoad == LoadOverview \/ LoadDistrictPage \/ UpdateSectorDrilldown

SpecLoad == InitLoad /\ [][NextLoad]_vars

---------------------------------------------------------------------------
(* Callbacks that run at the same time on the server's threads *)

MaxThreads == 2
MaxThreadRows == 2

Threads == 1..MaxThreads

\* mutant: `filtered` is one module-level name that every invocation uses
frame_of_Global(t) == 1

\* `filtered` is a local of filter_data: each invocation has its own
frame_of(t) == t

\* sorted(filtered['school_name'].unique().tolist())
school_options(filtered) ==
    LET names == SortedKeys({<<filtered[i].school_name>> : i \in DOMAIN filtered})
    IN  [i \in DOMAIN names |-> names[i][1]]

\* filter_data line by line: the statement at pc applied to the frame
FilterStep(pc, filtered, args) ==
    CASE pc = "location" ->
           IF Truthy(args.location) /\ args.location # "All Locations"
           THEN SelectSeq(filtered, LAMBDA r : r.location_type = args.location)
           ELSE filtered
      [] pc = "province" ->
           IF Truthy(args.province) /\ args.province # "All Provinces"
           THEN SelectSeq(filtered, LAMBDA r : r.name_of_the_province = args.province)
           ELSE filtered
      [] pc = "district" ->
           IF Truthy(args.district) /\ args.district # "All Districts"
           THEN SelectSeq(filtered, LAMBDA r : r.name_of_the_district = args.district)
           ELSE filtered
      [] pc = "sector" ->
           IF Truthy(args.sector) /\ args.sector # "All Sectors"
           THEN SelectSeq(filtered, LAMBDA r : r.name_of_the_sector = args.sector)
           ELSE filtered
      [] pc = "schools" ->
           IF TruthyList(args.schools) /\ Len(args.schools.items) > 0
           THEN SelectSeq(filtered, LAMBDA r : r.school_name \in Range(args.schools.items))
           ELSE filtered

\* the statement after the one at pc
NextPc(pc, op) ==
    CASE pc = "copy" -> "location"
      [] pc = "location" -> "province"
      [] pc = "province" -> "district"
      [] pc = "district" -> "sector"
      [] pc = "sector" -> "schools"
      [] pc = "schools" -> IF op = "update_age_table" THEN "cut" ELSE "return"
      [] pc = "cut" -> "return"

\* what the callback passes to filter_data
FilterArgs(args) ==
    [location |-> OrNone(args.location, "All Locations"),
     province |-> OrNone(args.province, "All Provinces"),
     district |-> OrNone(args.district, "All Districts"),
     sector |-> OrNone(args.sector, "All Sectors"),
     schools |-> ListOrNone(args.schools)]

IdleThread ==
    [pc |-> "idle", op |-> "", args |-> InitialSelection,
     filtered |-> <<>>, result |-> <<>>]

\* the requests the browsers send: a callback and the values of its Inputs
Requests ==
    {[op |-> op, args |-> [InitialSelection EXCEPT !.location = l]] :
        op \in {"update_school_options", "update_age_table"},
        l \in {"All Locations", "Kigali City"}}

\* a request arrives and is given a thread
StartCallback(t) ==
    /\ threads[t].pc = "idle"
    /\ \E r \in Requests :
           threads' = [threads EXCEPT ![t] =
                          [IdleThread EXCEPT !.pc = "copy", !.op = r.op,
                                             !.args = r.args]]
    /\ UNCHANGED <<df, sel, call, ret, props, pending>>

\* filtered = df.copy()
CopySource(t) ==
    /\ threads[t].pc = "copy"
    /\ threads' = [threads EXCEPT ![frame_of(t)].filtered = df,
                                  ![t].pc = NextPc("copy", threads[t].op)]
    /\ UNCHANGED <<df, sel, call, ret, props, pending>>

\* one `if ...: filtered = filtered[...]` of filter_data
ApplyMask(t) ==
    /\ threads[t].pc \in {"location", "province", "district", "sector", "schools"}
    /\ threads' = [threads EXCEPT
           ![frame_of(t)].filtered =
               FilterStep(threads[t].pc, threads[frame_of(t)].filtered,
                          FilterArgs(threads[t].args)),
           ![t].pc = NextPc(threads[t].pc, threads[t].op)]
    /\ UNCHANGED <<df, sel, call, ret, props, pending>>

\* update_age_table: filtered_df['age_group'] = pd.cut(...)
CutAges(t) ==
    /\ threads[t].pc = "cut"
    /\ threads' = [threads EXCEPT
           ![frame_of(t)].filtered = with_age_group(threads[frame_of(t)].filtered),
           ![t].pc = NextPc("cut", threads[t].op)]
    /\ UNCHANGED <<df, sel, call, ret, props, pending>>

\* the rest of the callback, which reads its frame and builds the return value
ReturnResult(t) ==
    /\ threads[t].pc = "return"
    /\ threads' = [threads EXCEPT
           ![t].result =
               IF threads[t].op = "update_age_table"
               THEN age_summary(threads[frame_of(t)].filtered)
               ELSE school_options(threads[frame_of(t)].filtered),
           ![t].pc = "done"]
    /\ UNCHANGED <<df, sel, call, ret, props, pending>>

\* the response is sent and the thread is free again
SendResponse(t) ==
    /\ threads[t].pc = "done"
    /\ threads' = [threads EXCEPT ![t] = IdleThread]
    /\ UNCHANGED <<df, sel, call, ret, props, pending>>

\* schools of two ages, in and outside Kigali
ThreadRows ==
    {[GoodRow EXCEPT !.school_name = nl[1], !.location_type = nl[2],
                     !.kpi_b3_school_age = nl[3]] :
        nl \in {<<"A", "Kigali City", 10>>, <<"B", "Rural Districts", 65>>}}

ThreadTables == UNION {[1..n -> ThreadRows] : n \in 1..MaxThreadRows}

InitThreads ==
    /\ df \in {WithIndex(t) : t \in ThreadTables}
    /\ sel = InitialSelection
    /\ call = NoCall
    /\ ret = Returned(<<>>)
    /\ props = <<>>
    /\ pending = {}
    /\ threads = [t \in Threads |-> IdleThread]

NextThreads ==
    \E t \in Threads :
        \/ StartCallback(t)
        \/ CopySource(t)
        \/ ApplyMask(t)
        \/ CutAges(t)
        \/ ReturnResult(t)
        \/ SendResponse(t)

SpecThreads == InitThreads /\ [][NextThreads]_vars

---------------------------------------------------------------------------
(* The cascading dropdowns of the overview page *)

MaxCascadeRows == 2

\* sorted(data[col].unique().tolist())
sorted_unique(data, col) ==
    LET keys == SortedKeys({<<data[i][col]>> : i \in DOMAIN data})
    IN  [i \in DOMAIN keys |-> keys[i][1]]

all_provinces == sorted_unique(df, "name_of_the_province")

\* districts_by_province.get(prov, [])
districts_by_province(prov) ==
    sorted_unique(SelectSeq(df, LAMBDA r : r.name_of_the_province = prov),
                  "name_of_the_district")

\* sectors_by_district.get(dist, [])
sectors_by_district(dist) ==
    sorted_unique(SelectSeq(df, LAMBDA r : r.name_of_the_district = dist),
                  "name_of_the_sector")

\* mutant: the callback has one Output, the options
update_district_options_OptionsOnly(selected_province) ==
    [options |-> <<"All Districts">> \o
                     (IF selected_province = "All Provinces"
                      THEN sorted_unique(df, "name_of_the_district")
                      ELSE districts_by_province(selected_province)),
     value |-> sel.district]

\* 1_overview.py update_district_options (dash_simple.py has the same)
update_district_options(selected_province) ==
    [options |-> <<"All Districts">> \o
                     (IF selected_province = "All Provinces"
                      THEN sorted_unique(df, "name_of_the_district")
                      ELSE districts_by_province(selected_province)),
     value |-> "All Districts"]

\* 1_overview.py update_sector_options (dash_simple.py has the same)
update_sector_options(selected_district) ==
    [options |-> <<"All Sectors">> \o
                     (IF selected_district = "All Districts"
                      THEN sorted_unique(df, "name_of_the_sector")
                      ELSE sectors_by_district(selected_district)),
     value |-> "All Sectors"]

\* 1_overview.py update_school_options
update_school_options(location, province, district, sector) ==
    school_options(filter_data(OrNone(location, "All Locations"),
                               OrNone(province, "All Provinces"),
                               OrNone(district, "All Districts"),
                               OrNone(sector, "All Sectors"),
                               NoneList))

\* the Inputs of the three option callbacks
Inputs(callback) ==
    CASE callback = "update_district_options" -> {"province"}
      [] callback = "update_sector_options" -> {"district"}
      [] callback = "update_school_options" ->
             {"location", "province", "district", "sector"}

OptionCallbacks ==
    {"update_district_options", "update_sector_options", "update_school_options"}

\* the callbacks the renderer requests when a property is set
Triggered(property) == {c \in OptionCallbacks : property \in Inputs(c)}

\* the dropdowns as the layout creates them
InitialOptions ==
    [district_options |-> <<"All Districts">>,
     sector_options |-> <<"All Sectors">>,
     school_options |-> <<>>]

UserAction(field) == [op |-> "select", page |-> "1_overview", field |-> field]

\* the user picks another value of a single-value dropdown
Choose(field, offered) ==
    /\ pending = {}
    /\ \E v \in offered \ {sel[field]} :
           sel' = [sel EXCEPT ![field] = v]
    /\ pending' = Triggered(field)
    /\ call' = UserAction(field)
    /\ UNCHANGED <<df, ret, props, threads>>

ChooseLocation == Choose("location", {"All Locations", "Kigali City"})

ChooseProvince == Choose("province", {"All Provinces"} \cup Range(all_provinces))

ChooseDistrict == Choose("district", Range(props.district_options))

ChooseSector == Choose("sector", Range(props.sector_options))

\* the user adds a school the dropdown offers, or removes one
ChooseSchools ==
    /\ pending = {}
    /\ \E names \in SUBSET Range(props.school_options) :
           LET list == SomeList(SelectSeq(props.school_options,
                                          LAMBDA n : n \in names))
           IN  /\ list # sel.schools
               /\ sel' = [sel EXCEPT !.schools = list]
    /\ call' = UserAction("schools")
    /\ UNCHANGED <<df, ret, props, pending, threads>>

RunDistrictOptions ==
    /\ "update_district_options" \in pending
    /\ LET out == update_district_options(sel.province)
       IN  /\ props' = [props EXCEPT !.district_options = out.options]
           /\ sel' = [sel EXCEPT !.district = out.value]
           /\ ret' = Returned(out)
    /\ pending' = (pending \ {"update_district_options"}) \cup Triggered("district")
    /\ UNCHANGED <<df, call, threads>>

RunSectorOptions ==
    /\ "update_sector_options" \in pending
    /\ LET out == update_sector_options(sel.district)
       IN  /\ props' = [props EXCEPT !.sector_options = out.options]
           /\ sel' = [sel EXCEPT !.sector = out.value]
           /\ ret' = Returned(out)
    /\ pending' = (pending \ {"update_sector_options"}) \cup Triggered("sector")
    /\ UNCHANGED <<df, call, threads>>

\* the callback sets the options only; what the dropdown does with selected
\* values that are no longer offered is the component's business: one release
\* of dash keeps them, another removes them
RunSchoolOptions ==
    /\ "update_school_options" \in pending
    /\ LET out == update_school_options(sel.location, sel.province,
                                        sel.district, sel.sector)
       IN  /\ props' = [props EXCEPT !.school_options = out]
           /\ ret' = Returned(out)
           /\ \/ UNCHANGED sel
              \/ sel' = [sel EXCEPT !.schools =
                            SomeList(SelectSeq(sel.schools.items,
                                               LAMBDA n : n \in Range(out)))]
    /\ pending' = pending \ {"update_school_options"}
    /\ UNCHANGED <<df, call, threads>>

\* two schools, in and outside Kigali, in three places; sector S2 exists in
\* both provinces, S1 in one
CascadeRows ==
    {[GoodRow EXCEPT !.school_name = nl[1], !.location_type = nl[2],
                     !.name_of_the_province = pl[1],
                     !.name_of_the_district = pl[2],
                     !.name_of_the_sector = pl[3]] :
        nl \in {<<"A", "Kigali City">>, <<"B", "Rural Districts">>},
        pl \in {<<"P1", "D1", "S1">>, <<"P1", "D1", "S2">>,
                <<"P2", "D2", "S2">>}}

CascadeTables == UNION {[1..n -> CascadeRows] : n \in 1..MaxCascadeRows}

\* the page is served: every callback is requested once
InitCascade ==
    /\ df \in {WithIndex(t) : t \in CascadeTables}
    /\ sel = [InitialSelection EXCEPT !.schools = SomeList(<<>>)]
    /\ call = NoCall
    /\ ret = Returned(<<>>)
    /\ props = InitialOptions
    /\ pending = OptionCallbacks
    /\ threads = <<>>

NextCascade ==
    \/ ChooseLocation
    \/ ChooseProvince
    \/ ChooseDistrict
    \/ ChooseSector
    \/ ChooseSchools
    \/ RunDistrictOptions
    \/ RunSectorOptions
    \/ RunSchoolOptions

SpecCascade == InitCascade /\ [][NextCascade]_vars

---------------------------------------------------------------------------
(* app.py: the multi-page shell and its navigation buttons *)

NavButtons == <<"btn-page-1", "btn-page-2", "btn-page-3", "btn-page-4">>

\* page_map.get(button_id, 'page-1')
page_map(button_id) ==
    CASE button_id = "btn-page-1" -> "page-1"
      [] button_id = "btn-page-2" -> "page-2"
      [] button_id = "btn-page-3" -> "page-3"
      [] button_id = "btn-page-4" -> "page-4"
      [] OTHER -> "page-1"

\* mutant: the first Input is taken for the one that fired
update_current_page_FirstInput(triggered) == page_map(NavButtons[1])

\* update_current_page; `triggered` is ctx.triggered, the Inputs that fired
update_current_page(triggered) ==
    IF triggered = <<>> THEN "page-1" ELSE page_map(triggered[1])

Active == [color |-> "primary", outline |-> FALSE]
LightOutline == [color |-> "light", outline |-> TRUE]

\* create_header: the four navigation buttons as the header creates them
create_header == <<Active, LightOutline, LightOutline, LightOutline>>

\* page_index.get(current_page), 0 when the page has no button
page_index(current_page) ==
    CASE current_page = "page-1" -> 1
      [] current_page = "page-2" -> 2
      [] current_page = "page-3" -> 3
      [] current_page = "page-4" -> 4
      [] OTHER -> 0

\* update_button_styles: (color, outline) of the four buttons
update_button_styles(current_page) ==
    [i \in 1..4 |-> IF i = page_index(current_page) THEN Active ELSE LightOutline]

\* display_page: the module whose layout is shown
page_files(current_page) ==
    CASE current_page = "page-1" -> "1_overview"
      [] current_page = "page-2" -> "2_maintenance_operation"
      [] current_page = "page-3" -> "3_safety_utilities_enironment"
      [] current_page = "page-4" -> "4_district"
      [] OTHER -> "Page en construction"

\* a callback the renderer has requested: the Inputs that fired and the
\* callbacks whose outputs led to the request
Request(callback, triggered, predecessors) ==
    [callback |-> callback, triggered |-> triggered,
     predecessors |-> predecessors]

\* the callbacks that have Input('current-page', 'data')
PageCallbacks ==
    {"update_header", "update_footer", "display_page", "update_button_styles"}

\* mutant: a new header requests nothing
LayoutCallbacks_None(predecessors) == {}

\* the requests the renderer makes when the header's children are inserted:
\* the callback that has the new buttons as Outputs, and the callback that
\* has them as Inputs (prevent_initial_call does not hold it back, its
\* Output is not in the inserted part).  No button was clicked: ctx.triggered
\* is empty, or lists the new n_clicks properties, first button first.
LayoutCallbacks(predecessors) ==
    {Request("update_button_styles", <<>>, predecessors)}
        \cup {Request("update_current_page", t, predecessors) :
                 t \in {<<>>, NavButtons}}

\* the renderer's queue after new requests: a newer request replaces an
\* older one for the same callback, and a request for a callback that is
\* among its own predecessors closes a loop and is dropped
Enqueue(queue, requests) ==
    LET kept == {r \in requests : r.callback \notin r.predecessors}
    IN  {q \in queue : \A r \in kept : r.callback # q.callback} \cup kept

InitialShell ==
    [current_page |-> "page-1", buttons |-> <<>>, footer |-> FALSE,
     page_content |-> ""]

Answer(callback, value) == Returned([callback |-> callback, result |-> value])

\* the user clicks a navigation button of the header
ClickButton ==
    /\ pending = {}
    /\ props.buttons # <<>>
    /\ \E b \in Range(NavButtons) :
           /\ call' = [op |-> "click", page |-> "app", button |-> b]
           /\ pending' = {Request("update_current_page", <<b>>, {})}
    /\ UNCHANGED <<df, sel, ret, props, threads>>

RunCurrentPage ==
    \E r \in pending :
        /\ r.callback = "update_current_page"
        /\ LET page == update_current_page(r.triggered)
           IN  /\ props' = [props EXCEPT !.current_page = page]
               /\ ret' = Answer(r.callback, page)
        /\ pending' =
               Enqueue(pending \ {r},
                       {Request(c, <<"current-page">>,
                                r.predecessors \cup {r.callback}) :
                           c \in PageCallbacks})
        /\ UNCHANGED <<df, sel, call, threads>>

RunHeader ==
    \E r \in pending :
        /\ r.callback = "update_header"
        /\ props' = [props EXCEPT !.buttons = create_header]
        /\ ret' = Answer(r.callback, create_header)
        /\ pending' =
               Enqueue(pending \ {r},
                       LayoutCallbacks(r.predecessors \cup {r.callback}))
        /\ UNCHANGED <<df, sel, call, threads>>

\* the Outputs are set on the buttons the page has at that moment
RunButtonStyles ==
    \E r \in pending :
        /\ r.callback = "update_button_styles"
        /\ LET styles == update_button_styles(props.current_page)
           IN  /\ props' = [props EXCEPT !.buttons =
                               IF props.buttons = <<>> THEN <<>> ELSE styles]
               /\ ret' = Answer(r.callback, styles)
        /\ pending' = pending \ {r}
        /\ UNCHANGED <<df, sel, call, threads>>

RunFooter ==
    \E r \in pending :
        /\ r.callback = "update_footer"
        /\ props' = [props EXCEPT !.footer = TRUE]
        /\ ret' = Answer(r.callback, TRUE)
        /\ pending' = pending \ {r}
        /\ UNCHANGED <<df, sel, call, threads>>

RunDisplayPage ==
    \E r \in pending :
        /\ r.callback = "display_page"
        /\ props' = [props EXCEPT !.page_content = page_files(props.current_page)]
        /\ ret' = Answer(r.callback, page_files(props.current_page))
        /\ pending' = pending \ {r}
        /\ UNCHANGED <<df, sel, call, threads>>

\* the page is served: the callbacks whose Outputs are in app.layout are
\* requested (the buttons are not in it yet)
InitShell ==
    /\ df = <<>>
    /\ sel = InitialSelection
    /\ call = NoCall
    /\ ret = Returned(<<>>)
    /\ props = InitialShell
    /\ pending = {Request(c, <<>>, {}) :
                     c \in {"update_header", "update_footer", "display_page"}}
    /\ threads = <<>>

NextShell ==
    \/ ClickButton
    \/ RunCurrentPage
    \/ RunHeader
    \/ RunButtonStyles
    \/ RunFooter
    \/ RunDisplayPage

SpecShell == InitShell /\ [][NextShell]_vars

---------------------------------------------------------------------------
(* 2_maintenance_operation.py: the comparison of two provinces *)

MaxCompareRows == 2

\* the characters of a formatted number, in code point order
Chars == <<"%", ".", "0", "1", "2", "3", "4", "5", "6", "7", "8", "9">>

CharCode(c) == CHOOSE i \in DOMAIN Chars : Chars[i] = c

\* str > str: by code point from the left, a proper prefix is the smaller
RECURSIVE StrGreater(_, _)
StrGreater(a, b) ==
    IF a = <<>> THEN FALSE
    ELSE IF b = <<>> THEN TRUE
    ELSE IF Head(a) = Head(b) THEN StrGreater(Tail(a), Tail(b))
    ELSE CharCode(Head(a)) > CharCode(Head(b))

StrLess(a, b) == StrGreater(b, a)

\* the decimal digits of a natural number
RECURSIVE Digits(_)
Digits(n) ==
    IF n < 10 THEN <<Chars[n + 3]>> ELSE Digits(n \div 10) \o <<Chars[(n % 10) + 3]>>

\* f"{value:.1f}%" of a value held in tenths
FormatPercent(tenths) ==
    Digits(tenths \div 10) \o <<".">> \o Digits(tenths % 10) \o <<"%">>

\* f"{int(value)}"
FormatInt(value) == Digits(value)

\* round(data[col].sum() / len(data) * 100, 1), in tenths of a percent
PercentOfRows(data, col) == RoundHalfEven(ColSum(data, col) * 1000, Len(data))

\* 2_maintenance_operation.py calculate_dashboard_kpis: the five indicators
\* the comparison shows
calculate_dashboard_kpis(data) ==
    IF Len(data) = 0
    THEN [doing_maintenance_pct |-> 0, delayed_pct |-> 0, avg_days |-> 0,
          funding_gap_pct |-> 0, climate_mitigation |-> 0]
    ELSE [doing_maintenance_pct |->
              PercentOfRows(data, "m1_maintenance_activity_last_3y"),
          delayed_pct |-> PercentOfRows(data, "m5_delayed_maintenance"),
          avg_days |->
              MeanRound(data, "m2_days_since_last_maintenance", 1, 1, 1),
          funding_gap_pct |-> PercentOfRows(data, "m8_funding_gap"),
          climate_mitigation |->
              MeanRound(data, "kpi_e2_climate_mitigation_coverage", 1, 1, 1)]

Trophy == "trophy"

\* winner_badge: both else branches give the empty string
winner_badge(val1, val2, higher_better) ==
    IF higher_better
    THEN IF val1 > val2 THEN Trophy ELSE ""
    ELSE IF val1 < val2 THEN Trophy ELSE ""

\* the Winner cell of one metric; val1 and val2 are the formatted strings
winner_col(metric, prov1, prov2, val1, val2, winner) ==
    IF metric \in {"Doing Maintenance %", "Climate Mitigation %"}
    THEN IF winner # "" /\ StrGreater(val1, val2) THEN <<prov1, winner>>
         ELSE IF winner # "" THEN <<prov2, winner>> ELSE <<"Tie">>
    ELSE IF winner # "" /\ StrLess(val1, val2) THEN <<prov1, winner>>
         ELSE IF winner # "" THEN <<prov2, winner>> ELSE <<"Tie">>

\* comparison_rows
comparison_rows(kpis1, kpis2) ==
    <<<<"Doing Maintenance %", FormatPercent(kpis1.doing_maintenance_pct),
        FormatPercent(kpis2.doing_maintenance_pct),
        winner_badge(kpis1.doing_maintenance_pct, kpis2.doing_maintenance_pct, TRUE)>>,
      <<"Delayed Tasks %", FormatPercent(kpis1.delayed_pct),
        FormatPercent(kpis2.delayed_pct),
        winner_badge(kpis1.delayed_pct, kpis2.delayed_pct, FALSE)>>,
      <<"Avg Days Since", FormatInt(kpis1.avg_days), FormatInt(kpis2.avg_days),
        winner_badge(kpis1.avg_days, kpis2.avg_days, FALSE)>>,
      <<"Funding Gap %", FormatPercent(kpis1.funding_gap_pct),
        FormatPercent(kpis2.funding_gap_pct),
        winner_badge(kpis1.funding_gap_pct, kpis2.funding_gap_pct, FALSE)>>,
      <<"Climate Mitigation %", FormatPercent(kpis1.climate_mitigation),
        FormatPercent(kpis2.climate_mitigation),
        winner_badge(kpis1.climate_mitigation, kpis2.climate_mitigation, TRUE)>> >>

\* 2_maintenance_operation.py update_province_comparison (the second half
\* of 1_overview.py has the same; 3_safety_utilities_enironment.py has it
\* with six higher-is-better metrics)
update_province_comparison(prov1, prov2) ==
    IF ~Truthy(prov1) \/ ~Truthy(prov2)
    THEN /\ call' = [op |-> "update_province_comparison",
                     page |-> "2_maintenance_operation",
                     args |-> <<prov1, prov2>>]
         /\ ret' = Returned("Select two provinces to compare")
         /\ UNCHANGED <<df, sel, props, pending, threads>>
    ELSE LET df1 == filter_data(None, prov1, None, None, NoneList)
             df2 == filter_data(None, prov2, None, None, NoneList)
             kpis1 == calculate_dashboard_kpis(df1)
             kpis2 == calculate_dashboard_kpis(df2)
             rows == comparison_rows(kpis1, kpis2)
         IN  /\ call' = [op |-> "update_province_comparison",
                         page |-> "2_maintenance_operation",
                         args |-> <<prov1, prov2>>,
                         kpis1 |-> kpis1, kpis2 |-> kpis2]
             /\ ret' = Returned([i \in DOMAIN rows |->
                           [Metric |-> rows[i][1], val1 |-> rows[i][2],
                            val2 |-> rows[i][3],
                            Winner |-> winner_col(rows[i][1], prov1, prov2,
                                                  rows[i][2], rows[i][3],
                                                  rows[i][4])]])
             /\ UNCHANGED <<df, sel, props, pending, threads>>

\* schools of two provinces: maintenance done or not, delayed or not (a
\* delayed school has a funding gap), 9 or 10 days since the last
\* maintenance with a climate coverage of 9.0 or 10.0
CompareRows ==
    {[GoodRow EXCEPT !.name_of_the_province = p] @@
         [m1_maintenance_activity_last_3y |-> m1, m5_delayed_maintenance |-> m5,
          m8_funding_gap |-> m5, m2_days_since_last_maintenance |-> d,
          kpi_e2_climate_mitigation_coverage |-> 10 * d] :
        p \in {"P1", "P2"}, m1 \in {0, 1}, m5 \in {0, 1}, d \in {9, 10}}

CompareTables == UNION {[1..n -> CompareRows] : n \in 1..MaxCompareRows}

\* value=all_provinces[0] and value=all_provinces[1] (or [0] again)
InitialComparison(provinces) ==
    [prov1 |-> provinces[1],
     prov2 |-> IF Len(provinces) > 1 THEN provinces[2] ELSE provinces[1]]

SelectCompareProvince ==
    \/ Select("prov1", Range(all_provinces))
    \/ Select("prov2", Range(all_provinces))

UpdateProvinceComparison == update_province_comparison(sel.prov1, sel.prov2)

InitCompare ==
    /\ df \in {WithIndex(t) : t \in CompareTables}
    /\ sel = InitialComparison(all_provinces)
    /\ call = NoCall
    /\ ret = Returned(<<>>)
    /\ Quiet

NextCompare ==
    \/ SelectCompareProvince
    \/ UpdateProvinceComparison

SpecCompare == InitCompare /\ [][NextCompare]_vars

---------------------------------------------------------------------------
(* Claims about calculate_alerts *)

IndexesOf(list) == {list[i].index : i \in DOMAIN list}

\* the entry of `list` made from the row labelled idx
EntryOf(list, idx) == CHOOSE e \in Range(list) : e.index = idx

AlertsShown(pages) == call.op = "update_alerts" /\ call.page \in pages

SinglePass == {"1_overview", "dash_simple"}

\* the conditions as spec.md section 4.2 words them
UrgentCondition(r) ==
    \/ (r.kpi_a1_student_classroom_ratio # NaN
        /\ r.kpi_a1_student_classroom_ratio > 5000)
    \/ (r.kpi_a2_student_teacher_ratio # NaN
        /\ r.kpi_a2_student_teacher_ratio > 4000)
    \/ (r.index_1_infrastructure_health_index # NaN
        /\ r.index_1_infrastructure_health_index < 50)

AttentionCondition(r) ==
    \/ (r.kpi_a1_student_classroom_ratio # NaN
        /\ 4500 < r.kpi_a1_student_classroom_ratio
        /\ r.kpi_a1_student_classroom_ratio <= 5000)
    \/ (r.kpi_a2_student_teacher_ratio # NaN
        /\ 3500 < r.kpi_a2_student_teacher_ratio
        /\ r.kpi_a2_student_teacher_ratio <= 4000)
    \/ (r.index_1_infrastructure_health_index # NaN
        /\ 50 <= r.index_1_infrastructure_health_index
        /\ r.index_1_infrastructure_health_index < 70)
    \/ r.m5_delayed_maintenance = 1
    \/ r.s2_immediate_safety_concerns = 1
    \/ r.kpi_c1_fence_availability = 0

AttentionTags ==
    {"High S/C", "High S/T", "Med Infra", "Medium Infra", "Delayed",
     "Delayed Maint.", "Safety", "No Fence"}

\* C1: in the single-pass variants the three lists are pairwise disjoint, every
\* input row is in one of them, and their lengths add up to the number of
\* input rows; the end-to-end scenario gives 1 urgent (school 3), 2 attention
\* (schools 2 and 4) and 2 good (schools 1 and 5).
C1_Partition ==
    AlertsShown(SinglePass) =>
        LET v == ret.value
            U == IndexesOf(v.urgent)
            A == IndexesOf(v.attention)
            G == IndexesOf(v.good)
        IN  /\ U \cap A = {} /\ U \cap G = {} /\ A \cap G = {}
            /\ U \cup A \cup G = IndexesOf(call.data)
            /\ Len(v.urgent) + Len(v.attention) + Len(v.good) = Len(call.data)
            /\ call.data = WithIndex(EndToEnd) =>
                   /\ U = {2} /\ A = {1, 3} /\ G = {0, 4}

C1_Witness ==
    /\ AlertsShown({"1_overview"})
    /\ call.data = WithIndex(EndToEnd)
    /\ Len(ret.value.urgent) = 1
    /\ Len(ret.value.attention) = 2
    /\ Len(ret.value.good) = 2

\* C2: a row that meets an Urgent condition and an Attention condition is in
\* the urgent list only: it is in neither the attention nor the good list,
\* and its urgent entry carries no Attention issue tag (single-pass and
\* two-pass variants).
C2_UrgentOnly ==
    /\ AlertsShown({"1_overview"}) =>
           \A r \in Range(call.data) :
               UrgentCondition(r) /\ AttentionCondition(r) =>
                   /\ r.index \in IndexesOf(ret.value.urgent)
                   /\ r.index \notin IndexesOf(ret.value.attention)
                   /\ r.index \notin IndexesOf(ret.value.good)
                   /\ "Issues" \notin DOMAIN EntryOf(ret.value.urgent, r.index)
    /\ AlertsShown({"1_overview copy"}) =>
           \A r \in Range(call.data) :
               UrgentCondition(r) /\ AttentionCondition(r) =>
                   /\ r.index \in IndexesOf(ret.value.urgent_all)
                   /\ r.index \notin IndexesOf(ret.value.attention_all)
                   /\ r.index \notin IndexesOf(ret.value.attention)
                   /\ Range(EntryOf(ret.value.urgent_all, r.index).issues)
                          \cap AttentionTags = {}

C2_Witness ==
    /\ AlertsShown({"1_overview copy"})
    /\ \E r \in Range(call.data) :
           /\ r.kpi_a1_student_classroom_ratio = 5500
           /\ r.m5_delayed_maintenance = 1
           /\ r.index \in IndexesOf(ret.value.urgent)

\* C3: in the single-pass variants a row is in the urgent list if and only if
\* S/C > 50 or S/T > 40 or infra < 0.5; a row whose only findings are delayed
\* maintenance, a safety concern or a missing fence is not urgent.
C3_UrgentIff ==
    AlertsShown(SinglePass) =>
        \A r \in Range(call.data) :
            /\ r.index \in IndexesOf(ret.value.urgent) <=> UrgentCondition(r)
            /\ ( /\ r.kpi_a1_student_classroom_ratio \in 0..5000
                 /\ r.kpi_a2_student_teacher_ratio \in 0..4000
                 /\ r.index_1_infrastructure_health_index >= 50
                 /\ \/ r.m5_delayed_maintenance = 1
                    \/ r.s2_immediate_safety_concerns = 1
                    \/ r.kpi_c1_fence_availability = 0 )
               => r.index \notin IndexesOf(ret.value.urgent)

C3_Witness ==
    /\ AlertsShown({"dash_simple"})
    /\ \E r \in Range(call.data) :
           /\ r.kpi_a1_student_classroom_ratio = 5000
           /\ r.kpi_a2_student_teacher_ratio = 4000
           /\ r.index_1_infrastructure_health_index = 50
           /\ r.m5_delayed_maintenance = 1
           /\ r.s2_immediate_safety_concerns = 1
           /\ r.kpi_c1_fence_availability = 0
           /\ r.index \notin IndexesOf(ret.value.urgent)
           /\ r.index \in IndexesOf(ret.value.attention)

\* C4: in the single-pass variants a row is in the attention list if and only
\* if it is not Urgent and meets one of the six Attention conditions, and in
\* the good list if and only if it is neither Urgent nor Attention.
C4_AttentionIff ==
    AlertsShown(SinglePass) =>
        \A r \in Range(call.data) :
            /\ r.index \in IndexesOf(ret.value.attention)
                   <=> (~UrgentCondition(r) /\ AttentionCondition(r))
            /\ r.index \in IndexesOf(ret.value.good)
                   <=> (~UrgentCondition(r) /\ ~AttentionCondition(r))

C4_Witness ==
    /\ AlertsShown({"1_overview"})
    /\ \E r \in Range(call.data) :
           /\ r.kpi_a1_student_classroom_ratio = 4500
           /\ r.kpi_a2_student_teacher_ratio = 3500
           /\ r.index_1_infrastructure_health_index = 70
           /\ r.m5_delayed_maintenance = 0
           /\ r.s2_immediate_safety_concerns = 0
           /\ r.kpi_c1_fence_availability = 0
           /\ r.index \in IndexesOf(ret.value.attention)

\* S/T, infra and the three flags at Good values
OthersGood(r) ==
    /\ r.kpi_a2_student_teacher_ratio # NaN
    /\ r.kpi_a2_student_teacher_ratio <= 3500
    /\ r.index_1_infrastructure_health_index >= 70
    /\ r.m5_delayed_maintenance = 0
    /\ r.s2_immediate_safety_concerns = 0
    /\ r.kpi_c1_fence_availability = 1

\* C5: with everything else Good, S/C = 45 (and below) is Good, S/C above 45
\* up to and including 50 is Attention, S/C above 50 is Urgent.
C5_Boundaries ==
    AlertsShown({"1_overview"}) =>
        \A r \in Range(call.data) :
            OthersGood(r) /\ r.kpi_a1_student_classroom_ratio # NaN =>
                LET sc == r.kpi_a1_student_classroom_ratio
                IN  /\ sc <= 4500 => r.index \in IndexesOf(ret.value.good)
                    /\ (4500 < sc /\ sc <= 5000)
                           => r.index \in IndexesOf(ret.value.attention)
                    /\ sc > 5000 => r.index \in IndexesOf(ret.value.urgent)

\* the four values of the spec's boundary test have all been classified
C5_Witness ==
    /\ AlertsShown({"1_overview"})
    /\ \E r \in Range(call.data) :
           /\ OthersGood(r)
           /\ r.kpi_a1_student_classroom_ratio = 5000
           /\ r.index \in IndexesOf(ret.value.attention)

\* C6: the good count of the count-returning variant is the number of input
\* rows that are neither Urgent nor Attention (10 records with 1 Urgent and
\* 1 Attention give 8).
C6_GoodCount ==
    AlertsShown({"1_overview copy"}) =>
        ret.value.good =
            Cardinality({r \in Range(call.data) :
                            ~UrgentCondition(r) /\ ~AttentionCondition(r)})


---------------------------------------------------------------------------
(* Claims about filter_data *)

\* a criterion is present unless it is None, empty or the 'All ...' value
Present(v, all) == v # None /\ v # "" /\ v # all

SchoolsPresent(l) == ~l.none /\ l.items # <<>>

Satisfies(r, a) ==
    /\ Present(a.location, "All Locations") => r.location_type = a.location
    /\ Present(a.province, "All Provinces") => r.name_of_the_province = a.province
    /\ Present(a.district, "All Districts") => r.name_of_the_district = a.district
    /\ Present(a.sector, "All Sectors") => r.name_of_the_sector = a.sector
    /\ SchoolsPresent(a.schools) =>
           \E i \in DOMAIN a.schools.items : r.school_name = a.schools.items[i]

\* C7: filter_data returns exactly the rows of df that satisfy every present
\* criterion, each once and in the order of df (so a subset of df); with no
\* criterion present it returns df.
C7_FilterExact ==
    call.op = "filter_data" =>
        LET out == ret.value
        IN  /\ ret.raised = ""
            /\ \A i \in DOMAIN out : out[i] \in Range(df)
            /\ \A i, j \in DOMAIN out : i < j => out[i].index < out[j].index
            /\ IndexesOf(out) = {r.index : r \in {x \in Range(df) : Satisfies(x, call.args)}}

\* two criteria present, one row kept and one row dropped
C7_Witness ==
    /\ call.op = "filter_data" /\ call.page = "1_overview"
    /\ call.args.location = "Kigali City"
    /\ call.args.sector = "S1"
    /\ call.args.province = ""
    /\ call.args.district = "All Districts"
    /\ call.args.schools = SomeList(<<>>)
    /\ Len(df) = 2 /\ Len(ret.value) = 1
    /\ ret.value[1].index = 1

---------------------------------------------------------------------------
(* Claims about empty record sets and the district aggregate *)

\* the current province or district value is one no record has
NoSuchPlace ==
    \/ /\ sel.province # "All Provinces"
       /\ \A i \in DOMAIN df : df[i].name_of_the_province # sel.province
    \/ /\ sel.district # "All Districts"
       /\ \A i \in DOMAIN df : df[i].name_of_the_district # sel.district

NoSuchProvince ==
    /\ sel.province # "All Provinces"
    /\ \A i \in DOMAIN df : df[i].name_of_the_province # sel.province

Aggregated == call.op \in {"update_ranking_table", "update_gap_chart",
                           "update_top10_chart"}

C9_EmptyIsValid ==
    (/\ call.op \in {"update_ranking_table", "update_gap_chart",
                     "update_top10_chart", "update_top_performers"}
     /\ call.data = <<>>) =>
        /\ ret.raised = ""
        /\ IF call.op = "update_ranking_table" THEN ret.value.data = <<>>
           ELSE ret.value = <<>>

\* C10: no district name appears in more than one row of the aggregate.
C10_UniqueDistricts ==
    Aggregated =>
        \A i, j \in DOMAIN call.district_agg.rows :
            call.district_agg.rows[i]["District"] =
                call.district_agg.rows[j]["District"] => i = j

---------------------------------------------------------------------------
(* Claims about the reductions and the ranks of the aggregate *)

\* a < b between two cells (False when either is null)
Below(a, b) == a # NaN /\ b # NaN /\ a < b

\* a call that has built an aggregate from call.data
HasAggregate == Aggregated \/ call.op = "aggregate_by_district"

\* the records of call.data that belong to the aggregate row g
MembersOf(g) ==
    SelectSeq(call.data,
              LAMBDA r : /\ r.name_of_the_district = g["District"]
                         /\ r.name_of_the_province = g["Province"]
                         /\ r.location_type = g["Location"])

RECURSIVE Total(_, _)
Total(rows, col) ==
    IF rows = <<>> THEN 0
    ELSE (IF Head(rows)[col] = NaN THEN 0 ELSE Head(rows)[col])
         + Total(Tail(rows), col)

NonNull(rows, col) == SelectSeq(rows, LAMBDA r : r[col] # NaN)

\* C11: for every group the count is the number of member records, each
\* summed field is the sum over the members, each mean field is the
\* arithmetic mean over the members with a non-null value; two records in
\* one district with S/C 40 and 60 give mean S/C 50 and count 2.
C11_Reductions ==
    HasAggregate =>
        /\ \A i \in DOMAIN call.district_agg.rows :
               LET g == call.district_agg.rows[i]
                   members == MembersOf(g)
                   valued == NonNull(members, "kpi_a1_student_classroom_ratio")
               IN  /\ g["Schools"] = Len(members)
                   /\ g["Students"] = Total(members, "number_of_students")
                   /\ g["Teachers"] = Total(members, "number_of_teachers")
                   /\ g["Classrooms"] = Total(members, "number_of_classrooms")
                   /\ valued # <<>> =>
                          g["S/C Ratio"] * Len(valued)
                              = Total(valued, "kpi_a1_student_classroom_ratio")
        /\ (/\ Len(call.data) = 2
            /\ call.data[1].name_of_the_district = call.data[2].name_of_the_district
            /\ {call.data[1].kpi_a1_student_classroom_ratio,
                call.data[2].kpi_a1_student_classroom_ratio} = {4000, 6000}) =>
               \E i \in DOMAIN call.district_agg.rows :
                   /\ call.district_agg.rows[i]["District"]
                          = call.data[1].name_of_the_district
                   /\ call.district_agg.rows[i]["S/C Ratio"] = 5000
                   /\ call.district_agg.rows[i]["Schools"] = 2

\* C12: the Rank values are exactly 1..N, each once, and a row with a
\* smaller Rank never has a smaller Infra Index than a row with a larger Rank.
C12_RankOrder ==
    HasAggregate =>
        LET rows == call.district_agg.rows
        IN  /\ {rows[i]["Rank"] : i \in DOMAIN rows} = 1..Len(rows)
            /\ \A i, j \in DOMAIN rows :
                   /\ rows[i]["Rank"] = rows[j]["Rank"] => i = j
                   /\ rows[i]["Rank"] < rows[j]["Rank"] =>
                          ~Below(rows[i]["Infra Index"], rows[j]["Infra Index"])
            /\ Len(rows) = Cardinality({GroupKey(r) : r \in Range(call.data)})

C12_Witness ==
    /\ call.op = "aggregate_by_district"
    /\ Len(call.district_agg.rows) = 3
    /\ call.district_agg.rows[1]["Infra Index"] = 90
    /\ call.district_agg.rows[2]["Infra Index"] = 50
    /\ call.district_agg.rows[3]["Infra Index"] = NaN
    /\ call.district_agg.rows[3]["Rank"] = 3

\* the rank the aggregate gives to a district
RankOf(d) ==
    (CHOOSE g \in Range(call.district_agg.rows) : g["District"] = d)["Rank"]

\* C13: groups with equal Infra Index are ranked in their input (group
\* iteration) order; indices [0.9, 0.5, 0.9] get ranks [1, 3, 2].
C13_StableRanks ==
    HasAggregate =>
        /\ \A i, j \in DOMAIN call.district_agg.rows :
               LET a == call.district_agg.rows[i]
                   b == call.district_agg.rows[j]
               IN  (/\ a["Infra Index"] = b["Infra Index"]
                    /\ TupleLess(<<a["District"], a["Province"], a["Location"]>>,
                                 <<b["District"], b["Province"], b["Location"]>>))
                       => a["Rank"] < b["Rank"]
        /\ (/\ Len(call.data) = 3
            /\ \A k \in 1..3 : call.data[k].name_of_the_district
                                   = <<"D1", "D2", "D3">>[k]
            /\ \A k \in 1..3 : call.data[k].index_1_infrastructure_health_index
                                   = <<90, 50, 90>>[k]) =>
               <<RankOf("D1"), RankOf("D2"), RankOf("D3")>> = <<1, 3, 2>>

---------------------------------------------------------------------------
(* Claims about the gap analysis *)

GapShown == call.op = "update_gap_chart" /\ ret.raised = ""

Abs(x) == IF x < 0 THEN 0 - x ELSE x

\* the colours of the six severity buckets
Critical == "#8b0000"
Severe == "#d62728"
Moderate == "#ff7f0e"
Minor == "#ffc107"
Good == "#90ee90"
Excellent == "#2ca02c"

\* C14: for every district row gap = Infra Index - 0.7 and gap_percent =
\* gap / 0.7 * 100 (to the tenth shown), the sign kept, and the rows are in
\* ascending order of gap.  Index and gap in hundredths, percent in tenths.
C14_GapValues ==
    GapShown =>
        /\ Len(ret.value) = Len(call.district_agg.rows)
        /\ \A i \in DOMAIN ret.value :
               LET r == ret.value[i]
               IN  IF r["Infra Index"] = NaN
                   THEN r["Gap"] = NaN /\ r["Gap_Percent"] = NaN
                   ELSE /\ r["Gap"] = r["Infra Index"] - 70
                        /\ 2 * Abs(r["Gap_Percent"] * 70 - r["Gap"] * 1000) <= 70
                        /\ (r["Gap_Percent"] < 0) = (r["Infra Index"] < 70)
                        /\ (r["Gap_Percent"] > 0) = (r["Infra Index"] > 70)
        /\ \A i, j \in DOMAIN ret.value :
               i < j => ~Below(ret.value[j]["Gap"], ret.value[i]["Gap"])

C14_Witness ==
    /\ GapShown
    /\ Len(ret.value) = 2
    /\ ret.value[1]["Infra Index"] = 50 /\ ret.value[1]["Gap"] = 0 - 20
    /\ ret.value[2]["Infra Index"] = 90 /\ ret.value[2]["Gap"] = 20

\* C15: every gap falls in exactly one bucket: critical below -0.3, severe
\* from -0.3 to below -0.2, moderate from -0.2 to below -0.1, minor from
\* -0.1 to below 0, good from 0 to below 0.1, excellent from 0.1.
C15_Buckets ==
    GapShown =>
        \A i \in DOMAIN ret.value :
            LET gap == ret.value[i]["Gap"]
                color == ret.value[i]["Color"]
            IN  /\ color \in {Critical, Severe, Moderate, Minor, Good, Excellent}
                /\ LT(gap, 0 - 30) => color = Critical
                /\ GE(gap, 0 - 30) /\ LT(gap, 0 - 20) => color = Severe
                /\ GE(gap, 0 - 20) /\ LT(gap, 0 - 10) => color = Moderate
                /\ GE(gap, 0 - 10) /\ LT(gap, 0) => color = Minor
                /\ GE(gap, 0) /\ LT(gap, 10) => color = Good
                /\ GE(gap, 10) => color = Excellent

C15_Witness ==
    /\ GapShown
    /\ Len(ret.value) = 1
    /\ ret.value[1]["Gap"] = 10
    /\ ret.value[1]["Color"] = Excellent

\* a district whose infrastructure index is 0.4
IndexFourTenths(i) == GapShown /\ ret.value[i]["Infra Index"] = 40

\* C16 as stated: for an index of 0.4 against the target 0.7 the gap is
\* -0.3, the gap percent about -42.9 and the bucket critical.
C16_Critical ==
    GapShown =>
        \A i \in DOMAIN ret.value :
            IndexFourTenths(i) =>
                /\ ret.value[i]["Gap"] = 0 - 30
                /\ ret.value[i]["Gap_Percent"] = 0 - 429
                /\ ret.value[i]["Color"] = Critical

\* C16 amended: for an index of 0.4 the gap is -0.3, the gap percent about
\* -42.9 and the bucket severe, since -0.3 is not below -0.3.
C16_Severe ==
    GapShown =>
        \A i \in DOMAIN ret.value :
            IndexFourTenths(i) =>
                /\ ret.value[i]["Gap"] = 0 - 30
                /\ ret.value[i]["Gap_Percent"] = 0 - 429
                /\ ret.value[i]["Color"] = Severe

C16_Witness ==
    /\ GapShown
    /\ Len(ret.value) = 1
    /\ IndexFourTenths(1)
    /\ ret.value[1]["Color"] = Severe

---------------------------------------------------------------------------
(* Claims about the radar normalisation *)

InUnitInterval(v) == v.num # NaN /\ 0 <= v.num /\ v.num <= v.den

\* C17: every one of the eight values the radar normalisation produces for
\* a district row lies in [0,1], for every aggregate row.
C17_RadarRange ==
    (call.op = "update_spider_chart" /\ ret.raised = "") =>
        \A i \in DOMAIN ret.value.traces :
            \A k \in 1..8 : InUnitInterval(ret.value.traces[i].r[k])

---------------------------------------------------------------------------
(* Claims about divisions by zero *)

\* C18: a division whose denominator is zero (zero classrooms in the
\* teacher/classroom ratio, zero toilets in the gender gap) yields a defined
\* value and never raises or puts NaN or Inf into a value that is displayed.
C18_ZeroDenominator ==
    /\ call.op = "update_kpi_row2" =>
           /\ ret.raised = ""
           /\ \A i \in DOMAIN ret.value :
                  ret.value[i].title = "Teacher/Classroom" =>
                      Finite(ret.value[i].value)
    /\ call.op = "update_toilets_chart" =>
           /\ ret.raised = ""
           /\ Finite(ret.value.gap_pct)

---------------------------------------------------------------------------
(* Claims about the load-time normalisation *)

RECURSIVE SchoolsShown(_)
SchoolsShown(table_data) ==
    IF table_data = <<>> THEN 0
    ELSE Head(table_data)["Schools"] + SchoolsShown(Tail(table_data))

\* C19: after load every record has a non-null province, district and
\* sector, in every dashboard, so that no record is lost when grouping by
\* sector.
C19_NoNullPlace ==
    /\ call.op = "load" =>
           \A i \in DOMAIN df :
               /\ df[i].name_of_the_province # Null
               /\ df[i].name_of_the_district # Null
               /\ df[i].name_of_the_sector # Null
    /\ (call.op = "update_sector_drilldown" /\ ret.value.message = "") =>
           SchoolsShown(ret.value.table_data) = Len(call.data)

---------------------------------------------------------------------------
(* Claims about the source table *)

\* C20: no helper or callback changes the source table: whatever the filter
\* changes and callbacks, df keeps its rows, columns and values; age_group,
\* Selected and Gap are written to copies or to new aggregate tables.
C20_SourceUnchanged == [][df' = df]_vars

C20_Witness ==
    /\ call.op = "update_age_table"
    /\ sel = InitialSelection
    /\ Len(df) = 2
    /\ Len(call.data) = 2
    /\ \A i \in DOMAIN call.data : call.data[i]["age_group"] = "11-20 yrs"
    /\ \A i \in DOMAIN df : "age_group" \notin DOMAIN df[i]

---------------------------------------------------------------------------
(* Claims about recomputation *)

\* the table filter_data gives for the values the dropdowns have now
SelectedData ==
    filter_data(OrNone(sel.location, "All Locations"),
                OrNone(sel.province, "All Provinces"),
                OrNone(sel.district, "All Districts"),
                OrNone(sel.sector, "All Sectors"),
                ListOrNone(sel.schools))

SelectedDistrictData ==
    filter_data_district(OrNone(sel.location, "All Locations"),
                         OrNone(sel.province, "All Provinces"))

\* the KPI cards of a table
KpiCards(data) ==
    LET kpis == calculate_kpis(data)
    IN  <<kpis.avg_student_classroom, kpis.avg_student_teacher,
          kpis.avg_teacher_classroom, kpis.avg_infrastructure,
          kpis.pct_electricity, kpis.avg_water_quality>>

---------------------------------------------------------------------------
(* Claims about concurrent evaluations *)

\* what a request returns when it runs alone
Alone(op, args) ==
    LET a == FilterArgs(args)
        filtered == filter_data(a.location, a.province, a.district, a.sector,
                                a.schools)
    IN  IF op = "update_age_table"
        THEN age_summary(with_age_group(filtered))
        ELSE school_options(filtered)

\* the frame an evaluation has built when it has reached the statement at pc
FrameAt(pc, args) ==
    LET a == FilterArgs(args)
        f1 == FilterStep("location", df, a)
        f2 == FilterStep("province", f1, a)
        f3 == FilterStep("district", f2, a)
        f4 == FilterStep("sector", f3, a)
        f5 == FilterStep("schools", f4, a)
    IN  CASE pc \in {"idle", "copy"} -> <<>>
          [] pc = "location" -> df
          [] pc = "province" -> f1
          [] pc = "district" -> f2
          [] pc = "sector" -> f3
          [] pc = "schools" -> f4
          [] pc = "cut" -> f5
          [] pc \in {"return", "done"} -> with_age_group(f5)

\* C22: evaluations that run at the same time over the same source table,
\* interleaved at any statement, each return what they return when run
\* alone, and none sees or changes the frame another is working on: at every
\* statement a thread's frame is the one its own statements have built.
C22_Isolation ==
    \A t \in Threads :
        /\ threads[t].pc = "done" =>
               threads[t].result = Alone(threads[t].op, threads[t].args)
        /\ (threads[t].pc \notin {"idle", "copy", "return", "done"}
              \/ (threads[t].pc \in {"return", "done"}
                    /\ threads[t].op = "update_age_table")) =>
               threads[t].filtered = FrameAt(threads[t].pc, threads[t].args)

\* the age table of Kigali City is done while the school list of every
\* location is half way through its masks, over a table with both
C22_Witness ==
    /\ threads[1].pc = "done"
    /\ threads[1].op = "update_age_table"
    /\ threads[1].args.location = "Kigali City"
    /\ Len(threads[1].result) = 1
    /\ threads[2].pc = "district"
    /\ threads[2].op = "update_school_options"
    /\ threads[2].args.location = "All Locations"
    /\ Len(threads[2].filtered) = 2
    /\ Len(threads[1].filtered) = 1

---------------------------------------------------------------------------
(* Claims about the cascading dropdowns *)

\* the values a column takes in the records that have `value` in `col`
ValuesWhere(col, value, wanted) ==
    {df[i][wanted] : i \in {j \in DOMAIN df : df[j][col] = value}}

ValuesOf(wanted) == {df[i][wanted] : i \in DOMAIN df}

Settled == pending = {}

\* C23: the dropdowns cascade.  Once update_district_options has answered a
\* province change, the districts offered are exactly those of the province
\* (all of them for 'All Provinces'); once update_sector_options has answered
\* a district change, the sectors offered are those of the district; and
\* when the callbacks have settled after a province change, district is
\* 'All Districts' and sector 'All Sectors' (after a district change, sector
\* is 'All Sectors').
C23_Cascade ==
    /\ "update_district_options" \notin pending =>
           Range(props.district_options) =
               {"All Districts"} \cup
                   (IF sel.province = "All Provinces"
                    THEN ValuesOf("name_of_the_district")
                    ELSE ValuesWhere("name_of_the_province", sel.province,
                                     "name_of_the_district"))
    /\ pending \cap {"update_district_options", "update_sector_options"} = {} =>
           Range(props.sector_options) =
               {"All Sectors"} \cup
                   (IF sel.district = "All Districts"
                    THEN ValuesOf("name_of_the_sector")
                    ELSE ValuesWhere("name_of_the_district", sel.district,
                                     "name_of_the_sector"))
    /\ (Settled /\ call.op = "select" /\ call.field = "province") =>
           sel.district = "All Districts" /\ sel.sector = "All Sectors"
    /\ (Settled /\ call.op = "select" /\ call.field = "district") =>
           sel.sector = "All Sectors"

\* the user had picked a district and a sector, then changed the province
C23_Witness ==
    /\ Settled
    /\ call.op = "select"
    /\ call.field = "province"
    /\ sel.province = "P2"
    /\ props.district_options = <<"All Districts", "D2">>
    /\ props.sector_options = <<"All Sectors", "S1", "S2">>
    /\ sel.district = "All Districts"
    /\ sel.sector = "All Sectors"

\* C26: once the callbacks have settled, every school in the multi-school
\* selection is among the school options offered.
C26_SelectionOffered ==
    Settled => Range(sel.schools.items) \subseteq Range(props.school_options)

\* what the data callbacks get from filter_data once the user has chosen
\* `district` and `sector` in the dropdowns
AfterChoosing(district, sector) ==
    filter_data(OrNone(sel.location, "All Locations"),
                OrNone(sel.province, "All Provinces"),
                OrNone(district, "All Districts"),
                OrNone(sector, "All Sectors"),
                ListOrNone(sel.schools))

\* C27: with every location and no school selected, each district and
\* each sector the dropdowns offer goes with the current province and
\* district: choosing it leaves at least one record.
C27_OffersConsistent ==
    (Settled /\ sel.location = "All Locations" /\ sel.schools.items = <<>>) =>
        /\ \A d \in Range(props.district_options) :
               AfterChoosing(d, "All Sectors") # <<>>
        /\ \A sc \in Range(props.sector_options) :
               AfterChoosing(sel.district, sc) # <<>>

---------------------------------------------------------------------------
(* Claims about the navigation of the multi-page shell *)

\* the number of the button clicked last, 1 before any click
LastClicked ==
    IF call.op = "click"
    THEN CHOOSE k \in 1..4 : NavButtons[k] = call.button
    ELSE 1

PageNames == <<"page-1", "page-2", "page-3", "page-4">>

\* C24: after any sequence of clicks the current page is the page of the
\* button clicked last (page-1 before any click), and what
\* update_button_styles returns marks that page's button primary and not
\* outline, and the three others light and outline.
C24_CurrentPage ==
    /\ Settled => props.current_page = PageNames[LastClicked]
    /\ (ret.raised = "" /\ ret.value # <<>>
          /\ ret.value.callback = "update_button_styles") =>
           /\ props.current_page \in Range(PageNames)
           /\ \A k \in 1..4 :
                  /\ (PageNames[k] = props.current_page) =>
                         (ret.value.result[k].color = "primary"
                            /\ ~ret.value.result[k].outline)
                  /\ (PageNames[k] # props.current_page) =>
                         (ret.value.result[k].color = "light"
                            /\ ret.value.result[k].outline)

C24_Witness ==
    /\ Settled
    /\ call.op = "click"
    /\ call.button = "btn-page-4"
    /\ props.current_page = "page-4"
    /\ props.page_content = "4_district"
    /\ ret.value.callback = "update_button_styles"
    /\ ret.value.result[4] = Active

\* C25: after a click on button k, whatever the order in which the header
\* is rendered again and the button styles are set, the settled page shows
\* button k as its only active button.
C25_ActiveButton ==
    (Settled /\ props.buttons # <<>>) =>
        \A k \in 1..4 :
            (props.buttons[k].color = "primary" /\ ~props.buttons[k].outline)
                = (k = LastClicked)

\* the footer answered last: the header and the styles were both done before
C25_Witness ==
    /\ Settled
    /\ call.op = "click"
    /\ call.button = "btn-page-3"
    /\ props.buttons[3] = Active
    /\ props.buttons[1] = LightOutline
    /\ ret.value.callback = "update_footer"

---------------------------------------------------------------------------
(* Claims about the comparison of two provinces *)

\* the indicator of each line of the table, and whether higher is better
Indicators ==
    <<<<"doing_maintenance_pct", TRUE>>, <<"delayed_pct", FALSE>>,
      <<"avg_days", FALSE>>, <<"funding_gap_pct", FALSE>>,
      <<"climate_mitigation", TRUE>> >>

Compared == call.op = "update_province_comparison" /\ ret.value # <<>>

\* C28: on every line of the comparison the Winner column names the
\* province with the better value, the first or the second (the higher one,
\* or the lower one for delayed %, average days and funding gap %), and
\* shows 'Tie' only when the two values are equal.
C28_Winner ==
    Compared =>
        \A i \in DOMAIN Indicators :
            LET v1 == call.kpis1[Indicators[i][1]]
                v2 == call.kpis2[Indicators[i][1]]
                first_better == IF Indicators[i][2] THEN v1 > v2 ELSE v1 < v2
                winner == ret.value[i].Winner
            IN  /\ (v1 = v2) = (winner = <<"Tie">>)
                /\ (v1 # v2 /\ first_better) => winner[1] = call.args[1]
                /\ (v1 # v2 /\ ~first_better) => winner[1] = call.args[2]

---------------------------------------------------------------------------
(* Claims about the good partition and the two alert implementations *)

\* C29: every record calculate_alerts puts in the good partition has
\* S/C <= 45, S/T <= 35 and infra >= 0.7, no delayed maintenance, no
\* immediate safety concern and a fence, and its 'Why Good' reasons list the
\* three tags; also when a ratio or the index of the record is null.
C29_GoodReasons ==
    AlertsShown(SinglePass) =>
        \A r \in Range(call.data) :
            r.index \in IndexesOf(ret.value.good) =>
                /\ r.kpi_a1_student_classroom_ratio # NaN
                /\ r.kpi_a1_student_classroom_ratio <= 4500
                /\ r.kpi_a2_student_teacher_ratio # NaN
                /\ r.kpi_a2_student_teacher_ratio <= 3500
                /\ r.index_1_infrastructure_health_index # NaN
                /\ r.index_1_infrastructure_health_index >= 70
                /\ r.m5_delayed_maintenance = 0
                /\ r.s2_immediate_safety_concerns = 0
                /\ r.kpi_c1_fence_availability = 1
                /\ EntryOf(ret.value.good, r.index).WhyGood
                       = <<"S/C<=45", "S/T<=35", "Infra>=0.7">>

\* C30: on every record set the two-pass variant keyed by school name and
\* the single-pass first-match variant put each record in the same tier (the
\* two-pass lists are taken before the [:5] cut), and their urgent,
\* attention and good counts are equal.
C30_VariantsAgree ==
    AlertsShown({"1_overview"}) =>
        LET two == calculate_alerts_final(call.data)
            one == ret.value
        IN  /\ IndexesOf(two.urgent_all) = IndexesOf(one.urgent)
            /\ IndexesOf(two.attention_all) = IndexesOf(one.attention)
            /\ Len(two.urgent_all) = Len(one.urgent)
            /\ Len(two.attention_all) = Len(one.attention)
            /\ two.good = Len(one.good)

=============================================================================
